---- MODULE Spec2Model ----
(***************************************************************************)
(* A model of the retail agency's tools and transport layer:               *)
(*   - the reporting manager's tools (SQLQueryToolV3, FileReaderTool,      *)
(*     NotionPosterTool, GoogleDriveTool, CloudStorageTool,                *)
(*     SlackCommunicator), each run() as a state machine over its external *)
(*     calls (LLM agent, database, GCS, Notion, Drive, Slack);             *)
(*   - the older SQLQueryTool of SQLQueryTOOL.py;                          *)
(*   - the Slack handlers of app.py and utils/slack_handler.py;            *)
(*   - NotionPosterTool._create_checklist_blocks;                          *)
(*   - the connection factory of utils/db_connection.py;                   *)
(*   - SlackThreadStorage of utils/firebase_db.py over Firestore;          *)
(*   - SQLQueryTool of reporting_manager/tools/SQLQueryTool.py;            *)
(*   - NotionPosterTool._create_analysis_blocks.                           *)
(* External services are nondeterministic: every call may succeed or       *)
(* raise.                                                                  *)
(***************************************************************************)
EXTENDS Integers, Sequences, FiniteSets, TLC

\* Python's None where a record is expected.
None == [none |-> TRUE]
\* ret while a run has not finished.
NoReturn == [tool |-> "none", kind |-> "none", error |-> FALSE]
\* sql_result when the agent's answer holds no list there (null).
NoList == -1

\* ------------------------------------------------------------------------
\* Bounds of the model
\* ------------------------------------------------------------------------
MaxRows == 11         \* most rows an agent answer or a database result holds
MaxWidth == 2         \* SQLQueryTOOL.py: most values in a result row
MaxTupleRows == 2     \* SQLQueryTOOL.py: most rows in a result list
MaxEvents == 3        \* most Slack message events delivered
MaxVendors == 3       \* most vendor groups of a checklist
MaxParagraphs == 2    \* most paragraphs of an analysis text

\* ------------------------------------------------------------------------
\* Program constants
\* ------------------------------------------------------------------------
max_retries == 3      \* CloudStorageTool.run: upload attempts
chunk_size == 1900    \* NotionPosterTool._create_analysis_blocks: characters per chunk

VARIABLES
    pc,            \* position of the running tool ("idle": none is running)
    ret,           \* what the last finished run() gave its caller
    top_k,         \* SQLQueryTool.top_k of the running V3 tool
    query_result,  \* V3: what QueryGenerator.generate_query returned
    df,            \* V3: the DataFrame of the run
    executed,      \* V3: the queries sent directly to the database by the run
    timestamp,     \* V3: the run's timestamp
    gcs,           \* the bucket, as the run wrote it: uri -> content uploaded since
                   \* the run began (None: nothing uploaded there by this run)
    retry_count,   \* CloudStorageTool.run: retry_count
    attempts,      \* CloudStorageTool.run: upload calls made by the run
    last_error     \* CloudStorageTool.run: the exception of the latest failure

VARIABLES
    self_query,    \* SQLQueryTOOL.py: SQLQueryTool.query, the question
    agent_output,  \* SQLQueryTOOL.py: what the agent answered to the run
    results,       \* SQLQueryTOOL.py: the argument of _convert_to_dataframe
    frame,         \* SQLQueryTOOL.py: the DataFrame _convert_to_dataframe gave
    lret           \* SQLQueryTOOL.py: what run() returned

VARIABLES
    messages,        \* Slack: the message events delivered so far
    handled,         \* the events a handler answered, with the conversation id used
    active_threads,  \* app.py: active_threads, conversation id -> thread_id
    remote_threads,  \* the assistant threads created at the remote API so far
    requested,       \* app.py: the ids get_or_create_thread returned a thread for
    handler_nonbot,  \* utils/slack_handler.py: the events without bot_id it received
    handler_sent,    \* utils/slack_handler.py: the messages it sent
    last_handling    \* the last event handled and what its handler did

VARIABLES
    checklist_pc,    \* NotionPosterTool._create_checklist_blocks: position
    checklist_data,  \* its argument
    blocks,          \* its local blocks, the types of the blocks appended
    total_blocks,    \* its local total_blocks
    vendor_i,        \* the outer loop's i
    item_j           \* the items of the current vendor, or of the flat input, passed so far

VARIABLES
    db_pc,               \* utils/db_connection.py get_db_connection: position
    db_config,           \* its config, by what of it is valid
    is_cloud_run,        \* os.getenv('K_SERVICE') is not None
    connector_attempts,  \* calls of create_connector_connection's body
    direct_attempts,     \* calls of create_direct_connection's body
    db_error,            \* the class of the exception in flight
    db_cause,            \* the class of its __cause__
    conn,                \* get_db_connection's local conn
    yielded,             \* the body of the with-statement was given a connection
    db_manager,          \* the context manager of the with-statement
    db_body,             \* how the body of the with-statement ended
    db_calls             \* the calls made on the connection and its cursor, in order

VARIABLES
    http_pc,        \* the HTTP endpoints: "idle" or "responded"
    http_request,   \* the request being answered
    http_response,  \* the response to it
    dispatched      \* the request went to the handling of message events

VARIABLES
    manager_pc,        \* ReportingManager.handle_message: "idle" or "returned"
    manager_message,   \* its message
    manager_run,       \* what the tools it called gave it
    manager_response   \* the dict it returned

VARIABLES
    gen_pc,            \* app.py generate_response: position
    gen_conversation,  \* its conversation_id
    gen_thread_id,     \* its local thread_id
    run_status,        \* the status of the run it created, at the remote API
    thread_messages,   \* what messages.list gives for the thread, newest first
    gen_response       \* the string it returned

VARIABLES
    th_pc,       \* each handler thread's position in get_or_create_thread
    th_cid,      \* its conversation_id
    th_thread,   \* its local thread, the id of the thread it created
    th_result,   \* the thread_id of the entry it returned
    th_created   \* the remote threads created, each with the id it was created for

VARIABLES
    slack_chats,    \* Firestore collection 'slack-chats': the 'threads' field of
                    \* each conversation's document
    st_last,        \* the latest SlackThreadStorage call made alone, and how it ended
    add_pc,         \* each concurrent add_message_to_thread call's position
    add_threads,    \* its local threads, as get_threads_from_db gave it
    add_thread_ts   \* the thread_ts the concurrent calls are made for

VARIABLES
    sq_pc,        \* tools/SQLQueryTool.py: position of the call
    sq_results,   \* the results given to _convert_to_dataframe
    sq_columns,   \* its provided_columns
    sq_df,        \* the DataFrame it returned
    sq_files,     \* the files under save_path, each with what was written to it
    sq_ret        \* what run() returned

VARIABLES
    an_pc,         \* NotionPosterTool._create_analysis_blocks: position of the call
    an_analysis,   \* its analysis text, as the paragraphs between blank lines
    an_blocks      \* the blocks it returned

toolVars == <<pc, ret, top_k, query_result, df, executed, timestamp, gcs,
              retry_count, attempts, last_error>>

legacyVars == <<self_query, agent_output, results, frame, lret>>

slackVars == <<messages, handled, active_threads, remote_threads, requested,
              handler_nonbot, handler_sent, last_handling>>

checklistVars == <<checklist_pc, checklist_data, blocks, total_blocks, vendor_i, item_j>>

dbVars == <<db_pc, db_config, is_cloud_run, connector_attempts, direct_attempts,
           db_error, db_cause, conn, yielded, db_manager, db_body, db_calls>>

httpVars == <<http_pc, http_request, http_response, dispatched>>

managerVars == <<manager_pc, manager_message, manager_run, manager_response>>

genVars == <<gen_pc, gen_conversation, gen_thread_id, run_status, thread_messages,
            gen_response>>

threadVars == <<th_pc, th_cid, th_thread, th_result, th_created>>

storageVars == <<slack_chats, st_last, add_pc, add_threads, add_thread_ts>>

sqlToolVars == <<sq_pc, sq_results, sq_columns, sq_df, sq_files, sq_ret>>

analysisVars == <<an_pc, an_analysis, an_blocks>>

vars == <<toolVars, legacyVars, slackVars, checklistVars, dbVars, httpVars, managerVars,
          genVars, threadVars, storageVars, sqlToolVars, analysisVars>>

\* ------------------------------------------------------------------------
\* Values
\* ------------------------------------------------------------------------
\* A DataFrame: its column labels and its number of rows.
DataFrame(cols, n) == [cols |-> cols, n |-> n]
EmptyDataFrame == DataFrame(<< >>, 0)

ColumnLists == { << >>, <<"name">>, <<"name", "stock_count">> }
TopKs == {1, 3, 10}      \* 10 is the default
Timestamps == {"t1", "t2"}

\* SQL text as a sequence of tokens; NUM is any run of digits. The empty
\* sequence is a missing query: null or the empty string, which run tells
\* apart nowhere (line 120).
Queries == { <<"SELECT">>,
             <<"SELECT", "LIMIT", "NUM">>,
             <<"SELECT", "LIMIT", "NUM", "OFFSET", "NUM">>,
             <<"SELECT", "OFFSET", "NUM", "LIMIT", "NUM">>,
             <<"SELECT", "LIMIT", "ALL">> }

Uris == { <<kind, t>> : kind \in {"header", "response"}, t \in Timestamps }
header_uri(t) == <<"header", t>>
response_uri(t) == <<"response", t>>

Errors == {"e1", "e2"}

\* ------------------------------------------------------------------------
\* SQLQueryToolV3
\* ------------------------------------------------------------------------
\* re.sub(r'\bKW\s+\d+\s*', '', q): drops every KW that a number follows,
\* together with the number.
RECURSIVE RemoveClause(_, _)
RemoveClause(q, kw) ==
    IF q = << >> THEN << >>
    ELSE IF Len(q) >= 2 /\ q[1] = kw /\ q[2] = "NUM"
         THEN RemoveClause(SubSeq(q, 3, Len(q)), kw)
         ELSE <<q[1]>> \o RemoveClause(Tail(q), kw)

clean_query(base_query) == RemoveClause(RemoveClause(base_query, "LIMIT"), "OFFSET")

UseExistingResults_inclusive(result_length, k) == result_length > 0 /\ result_length <= k

\* run, line 135: the initial rows are used as they are.
UseExistingResults(result_length, k) == result_length > 0 /\ result_length < k

\* _convert_to_dataframe: [ok |-> FALSE] stands for pandas raising on a
\* column list that does not fit the rows.
convert_to_dataframe(qr) ==
    IF qr.sql_result = 0 \/ qr.columns = << >>
    THEN [ok |-> TRUE, df |-> EmptyDataFrame]
    ELSE IF Len(qr.columns) # qr.width
         THEN [ok |-> FALSE, df |-> EmptyDataFrame]
         ELSE [ok |-> TRUE, df |-> DataFrame(qr.columns, qr.sql_result)]

\* GCSStorage.save_json / save_dataframe: the blob at the uri is replaced.
save_json(store, data, destination) == [store EXCEPT ![destination] = data]
save_dataframe_lost(store, data, destination) == store

save_dataframe(store, data, destination) == [store EXCEPT ![destination] = data]

V3Error == [tool |-> "SQLQueryToolV3", kind |-> "value", error |-> TRUE]

V3Fail ==
    /\ pc' = "returned"
    /\ ret' = V3Error

\* The locals of a run are gone once its caller has the result.
ResetV3 ==
    /\ top_k' = 1
    /\ query_result' = None
    /\ df' = None
    /\ executed' = << >>
    /\ timestamp' = "t1"
    /\ gcs' = [u \in Uris |-> None]

ResetCloud ==
    /\ retry_count' = 0
    /\ attempts' = 0
    /\ last_error' = "none"

\* run, lines 115-142 up to the branch: the agent is asked, the answer is
\* checked, and the rows are either taken from it or the traditional query
\* is due.
V3Generate ==
    /\ pc = "idle"
    /\ \E k \in TopKs, t \in Timestamps,
          q \in Queries \cup {<< >>},
          n \in (0..MaxRows) \cup {NoList},
          w \in 1..2, cols \in ColumnLists :
          LET qr == [sql_query |-> q, sql_result |-> n, width |-> w, columns |-> cols]
              conv == convert_to_dataframe(qr)
          IN  /\ top_k' = k
              /\ query_result' = qr
              /\ executed' = << >>
              /\ timestamp' = t
              /\ gcs' = [u \in Uris |-> None]
              /\ IF q = << >>
                 THEN V3Fail /\ df' = None
                 ELSE IF n = NoList
                 THEN V3Fail /\ df' = None          \* len(None) raises
                 ELSE IF UseExistingResults(n, k)
                 THEN IF conv.ok
                      THEN /\ df' = conv.df
                           /\ pc' = "v3_save_header"
                           /\ ret' = NoReturn
                      ELSE V3Fail /\ df' = None
                 ELSE /\ df' = None
                      /\ pc' = "v3_traditional"
                      /\ ret' = NoReturn
    /\ UNCHANGED <<retry_count, attempts, last_error>>

\* _execute_traditional_query: the cleaned query is sent to the database,
\* which answers with rows or raises.
V3TraditionalQuery ==
    /\ pc = "v3_traditional"
    /\ executed' = Append(executed, clean_query(query_result.sql_query))
    /\ \/ \E n \in 0..MaxRows, cols \in ColumnLists \ {<< >>} :
             /\ df' = DataFrame(cols, n)
             /\ pc' = "v3_save_header"
             /\ UNCHANGED ret
       \/ V3Fail /\ UNCHANGED df
    /\ UNCHANGED <<top_k, query_result, timestamp, gcs, retry_count, attempts, last_error>>

\* _save_to_gcs, lines 64-76: the header file.
V3SaveHeader ==
    /\ pc = "v3_save_header"
    /\ \/ /\ gcs' = save_json(gcs, [columns |-> df.cols, total_records |-> df.n],
                              header_uri(timestamp))
          /\ pc' = "v3_save_response"
          /\ UNCHANGED ret
       \/ V3Fail /\ UNCHANGED gcs
    /\ UNCHANGED <<top_k, query_result, df, executed, timestamp, retry_count, attempts, last_error>>

\* _save_to_gcs, lines 78-84, and run, lines 152-165: the response file,
\* then the response with the URIs and the metadata.
V3SaveResponse ==
    /\ pc = "v3_save_response"
    /\ \/ /\ gcs' = save_dataframe(gcs, df, response_uri(timestamp))
          /\ pc' = "returned"
          /\ ret' = [tool |-> "SQLQueryToolV3", kind |-> "value", error |-> FALSE,
                     header_uri |-> header_uri(timestamp),
                     response_uri |-> response_uri(timestamp),
                     total_records |-> df.n, columns |-> df.cols]
       \/ V3Fail /\ UNCHANGED gcs
    /\ UNCHANGED <<top_k, query_result, df, executed, timestamp, retry_count, attempts, last_error>>

\* ------------------------------------------------------------------------
\* CloudStorageTool
\* ------------------------------------------------------------------------
CloudReturn(status, e) ==
    [tool |-> "CloudStorageTool", kind |-> "value", error |-> status # "success",
     status |-> status, exception |-> e]

GiveUp_late(count) == count > max_retries

\* run, line 108: the attempt that failed was the last one allowed.
GiveUp(count) == count = max_retries

\* run, lines 42-75: credentials, client, bucket and blob; any failure there
\* is caught at line 114.
CloudStart ==
    /\ pc = "idle"
    /\ \/ /\ pc' = "cs_upload"
          /\ ret' = NoReturn
       \/ \E e \in Errors :
             /\ pc' = "returned"
             /\ ret' = CloudReturn("error", e)
    /\ UNCHANGED <<top_k, query_result, df, executed, timestamp, gcs,
                   retry_count, attempts, last_error>>

\* run, lines 80-112: one turn of the retry loop. An attempt uploads and then
\* signs the URL; either may raise. When the loop's condition fails the
\* function falls off its end and returns None.
CloudAttempt ==
    /\ pc = "cs_upload"
    /\ IF retry_count < max_retries
       THEN /\ attempts' = attempts + 1
            /\ \/ /\ pc' = "returned"
                  /\ ret' = CloudReturn("success", "none")
                  /\ UNCHANGED <<retry_count, last_error>>
               \/ \E e \in Errors, failed \in {"upload", "sign"} :
                     /\ retry_count' = retry_count + 1
                     /\ last_error' = e
                     /\ IF GiveUp(retry_count + 1)
                        THEN /\ pc' = "returned"
                             /\ ret' = CloudReturn("error", e)
                        ELSE /\ pc' = "cs_upload"
                             /\ ret' = NoReturn
       ELSE /\ pc' = "returned"
            /\ ret' = [tool |-> "CloudStorageTool", kind |-> "value", error |-> FALSE,
                       status |-> "None", exception |-> "none"]
            /\ UNCHANGED <<retry_count, attempts, last_error>>
    /\ UNCHANGED <<top_k, query_result, df, executed, timestamp, gcs>>

\* ------------------------------------------------------------------------
\* FileReaderTool, NotionPosterTool, GoogleDriveTool, SlackCommunicator
\* ------------------------------------------------------------------------
\* What a run() gives its caller when the step named by `failure` raises
\* ("none": no step raises).
Returned(tool, isError) == [tool |-> tool, kind |-> "value", error |-> isError]
Raised(tool) == [tool |-> tool, kind |-> "raise", error |-> FALSE]

\* FileReaderTool.run: reading the CSV and the LLM analysis are inside the
\* try; the handler returns "Error: ...".
FileReaderSteps == {"none", "read_csv", "analyze_data"}
FileReaderOutcome(failure) == Returned("FileReaderTool", failure # "none")

\* NotionPosterTool.run: the handler logs and re-raises (lines 415-417).
NotionSteps == {"none", "create_blocks", "pages_create", "response_keys"}
NotionOutcome(failure) ==
    IF failure = "none" THEN Returned("NotionPosterTool", FALSE)
    ELSE Raised("NotionPosterTool")

\* GoogleDriveTool.run: the handler logs and re-raises (lines 101-103).
\* FileReaderTool.run inside it swallows its own failures.
GoogleDriveSteps == {"none", "file_reader_init", "read_csv", "format_data", "create_sheet"}
GoogleDriveOutcome(failure) ==
    IF failure = "none" THEN Returned("GoogleDriveTool", FALSE)
    ELSE Raised("GoogleDriveTool")

\* SlackCommunicator.run: a missing token, a SlackApiError (also one whose
\* response cannot be read in the handler) and any other exception all end
\* in a dict with an 'error' entry.
SlackSteps == {"none", "no_token", "client_init", "channel_not_found", "not_in_channel",
               "other_api_error", "api_error_without_response", "other_exception"}
SlackOutcome(failure) == Returned("SlackCommunicator", failure # "none")

FileReaderRun ==
    /\ pc = "idle"
    /\ pc' = "returned"
    /\ UNCHANGED <<top_k, query_result, df, executed, timestamp, gcs,
                   retry_count, attempts, last_error>>
    /\ \E f \in FileReaderSteps : ret' = FileReaderOutcome(f)

NotionPosterRun ==
    /\ pc = "idle"
    /\ pc' = "returned"
    /\ UNCHANGED <<top_k, query_result, df, executed, timestamp, gcs,
                   retry_count, attempts, last_error>>
    /\ \E f \in NotionSteps : ret' = NotionOutcome(f)

GoogleDriveRun ==
    /\ pc = "idle"
    /\ pc' = "returned"
    /\ UNCHANGED <<top_k, query_result, df, executed, timestamp, gcs,
                   retry_count, attempts, last_error>>
    /\ \E f \in GoogleDriveSteps : ret' = GoogleDriveOutcome(f)

SlackCommunicatorRun ==
    /\ pc = "idle"
    /\ pc' = "returned"
    /\ UNCHANGED <<top_k, query_result, df, executed, timestamp, gcs,
                   retry_count, attempts, last_error>>
    /\ \E f \in SlackSteps : ret' = SlackOutcome(f)

\* ------------------------------------------------------------------------
\* SQLQueryTOOL.py: the older SQLQueryTool
\* ------------------------------------------------------------------------
\* A text (an SQL query or a question) as far as _infer_columns_from_query
\* reads it: whether it is empty, whether SELECT ... FROM matches and the
\* column expressions between them, and which keyword groups it mentions.
\* A column expression is [name, alias]: "t.name AS alias" with the table
\* prefix already apart; alias "" when there is none.
Text(isEmpty, matches, exprs, hits) ==
    [empty |-> isEmpty, match |-> matches, exprs |-> exprs, hits |-> hits]
NoText == Text(TRUE, FALSE, << >>, {})

Expr(name, alias) == [name |-> name, alias |-> alias]

SqlTexts == { Text(FALSE, TRUE, <<Expr("name", "")>>, {}),
              Text(FALSE, TRUE, <<Expr("name", ""), Expr("price", "")>>, {}),
              Text(FALSE, TRUE, <<Expr("name", ""), Expr("name", "")>>, {}),
              Text(FALSE, TRUE, <<Expr("total", "price"), Expr("price", "")>>, {}),
              Text(FALSE, FALSE, << >>, {}) }

Questions == { Text(FALSE, FALSE, << >>, h) :
                 h \in { {}, {"price"}, {"name", "price"}, {"stock_count", "price", "name"} } }

\* The values of a row, as far as line 210-217 tells them apart.
Cells == {"negative", "long_str", "UPPER", "lower", "other"}

RowsUpTo(w) == UNION { [1..k -> Cells] : k \in 0..w }
DataUpTo(w, n) == UNION { [1..k -> RowsUpTo(w)] : k \in 1..n }

\* keywords, lines 158-167, in the dict's order.
KeywordOrder == <<"stock_count", "price", "name", "date", "vendor", "category", "sales", "id">>

\* line 151: col.strip().split(' AS ')[-1].split('.')[-1].strip('"`')
CleanColumn(e) == IF e.alias # "" THEN e.alias ELSE e.name

\* _infer_columns_from_query
infer_columns_from_query(t) ==
    IF t.match
    THEN [i \in 1..Len(t.exprs) |-> CleanColumn(t.exprs[i])]
    ELSE SelectSeq(KeywordOrder, LAMBDA c : c \in t.hits)

\* f'column_{i}'
ColumnName(i) == "column_" \o ToString(i)

\* lines 209-217: a column name from the value at index i (from 0).
InferFromValue(value, i) ==
    CASE value = "negative" -> "quantity"
      [] value = "long_str" -> "name"
      [] value = "UPPER"    -> "id"
      [] value = "lower"    -> "category"
      [] OTHER              -> ColumnName(i)

\* The keys of a dict built from the pairs of a sequence, in insertion order.
RECURSIVE Dedup(_)
Dedup(names) ==
    IF names = << >> THEN << >>
    ELSE LET rest == Dedup(SubSeq(names, 1, Len(names) - 1))
             last == names[Len(names)]
         IN  IF \E i \in 1..Len(rest) : rest[i] = last THEN rest ELSE Append(rest, last)

Min(a, b) == IF a < b THEN a ELSE b

RECURSIVE Flatten(_)
Flatten(seqs) == IF seqs = << >> THEN << >> ELSE Head(seqs) \o Flatten(Tail(seqs))

\* lines 226-228: records = [dict(zip(columns, row)) for row in data];
\* pd.DataFrame(records) has the union of the records' keys as its columns.
records_frame(columns, data) ==
    DataFrame(Dedup(Flatten([i \in 1..Len(data) |->
                  SubSeq(columns, 1, Min(Len(columns), Len(data[i])))])),
              Len(data))

RightNumberOfColumns(columns, row) ==
    IF Len(columns) # Len(row) THEN [i \in 1..Len(row) |-> ColumnName(i - 1)] ELSE columns

\* _convert_to_dataframe. results is [wrapped, sql_query, kind, data]: a bare
\* list (wrapped FALSE) or a dict holding sql_result and sql_query; kind is
\* the type of the rows.
convert_to_dataframe_legacy(question, res) ==
    LET data == res.data
        sql_query == IF res.wrapped THEN res.sql_query ELSE NoText
        c1 == IF ~sql_query.empty THEN infer_columns_from_query(sql_query) ELSE << >>
        c2 == IF c1 = << >> THEN infer_columns_from_query(question) ELSE c1
        c3 == IF c2 = << >> \/ Len(c2) # Len(data[1])
              THEN [i \in 1..Len(data[1]) |-> InferFromValue(data[1][i], i - 1)]
              ELSE c2
        c4 == RightNumberOfColumns(c3, data[1])
    IN  IF data # << >> /\ res.kind = "tuples" THEN records_frame(c4, data)
        ELSE IF data # << >> /\ res.kind = "dicts"
        THEN DataFrame([i \in 1..Len(data[1]) |-> "key_" \o ToString(i)], Len(data))
        ELSE EmptyDataFrame

\* DataFrame.empty
IsEmptyFrame(f) == f.n = 0 \/ f.cols = << >>

Results(wrapped, sql_query, kind, data) ==
    [wrapped |-> wrapped, sql_query |-> sql_query, kind |-> kind, data |-> data]
NoResults == Results(FALSE, NoText, "lists", << >>)

LegacyNoReturn == [tool |-> "none", type |-> "none", row_count |-> 0]
LegacyError == [tool |-> "SQLQueryTOOL", type |-> "error", row_count |-> 0]

LegacyIdle ==
    /\ self_query = NoText
    /\ agent_output = [parsed |-> "none", sql_query |-> NoText, kind |-> "lists",
                       data |-> << >>, saved |-> FALSE]
    /\ results = NoResults
    /\ frame = EmptyDataFrame
    /\ lret = LegacyNoReturn

\* _convert_to_dataframe applied to a list of rows or to a structured dict.
LegacyConvert ==
    /\ LegacyIdle
    /\ \E question \in Questions, wrapped \in BOOLEAN, sql \in SqlTexts \cup {NoText},
       kind \in {"tuples", "lists", "dicts"},
       data \in DataUpTo(MaxWidth, MaxTupleRows) :
       /\ (~wrapped => sql = NoText)
       /\ self_query' = question
       /\ results' = Results(wrapped, sql, kind, data)
       /\ frame' = convert_to_dataframe_legacy(question, results')
       /\ UNCHANGED <<agent_output, lret>>

\* The caller has the result; the call's locals are gone.
LegacyReturn ==
    /\ ~LegacyIdle
    /\ self_query' = NoText
    /\ agent_output' = [parsed |-> "none", sql_query |-> NoText, kind |-> "lists",
                        data |-> << >>, saved |-> FALSE]
    /\ results' = NoResults
    /\ frame' = EmptyDataFrame
    /\ lret' = LegacyNoReturn

\* run, lines 279-396. The agent's output is JSON (rows are lists or dicts),
\* or text that the regular expressions search (rows come from json.loads or
\* from literal_eval, or nothing is found), or the agent raises. saved tells
\* whether the CSV and JSON files can be written.
LegacyRun ==
    /\ LegacyIdle
    /\ \E question \in Questions, parsed \in {"json", "regex", "raises"},
       sql \in SqlTexts \cup {NoText}, kind \in {"tuples", "lists", "dicts"},
       data \in DataUpTo(1, MaxTupleRows) \cup {<< >>}, saved \in BOOLEAN :
       /\ (parsed = "json" => kind # "tuples")
       /\ (parsed = "regex" => kind # "dicts")
       /\ self_query' = question
       /\ agent_output' = [parsed |-> parsed, sql_query |-> sql, kind |-> kind,
                           data |-> data, saved |-> saved]
       /\ results' = Results(FALSE, NoText, kind, data)
       /\ frame' = convert_to_dataframe_legacy(question, results')
       /\ lret' = IF parsed = "raises" \/ sql.empty \/ data = << >> THEN LegacyError
                  ELSE IF IsEmptyFrame(frame') THEN LegacyError
                  ELSE IF ~saved THEN LegacyError
                  ELSE [tool |-> "SQLQueryTOOL", type |-> "tabular", row_count |-> frame'.n]

\* The calling agent has the result of the run; the run's locals are gone.
ToolReturn ==
    /\ pc = "returned"
    /\ pc' = "idle"
    /\ ret' = NoReturn
    /\ ResetV3
    /\ ResetCloud

\* ------------------------------------------------------------------------
\* Slack events, app.py and utils/slack_handler.py
\* ------------------------------------------------------------------------
Channels == {"C1", "C12"}
TsValues == {"1", "21"}
\* thread_ts of an event that has none.
NoThread == ""

Event(c, t, r) == [channel |-> c, ts |-> t, thread_ts |-> r]

\* The events Slack can deliver next: a new message of a channel, with a ts
\* of its own, that starts a thread or replies in the thread of a delivered
\* root message of that channel.
NewEvents ==
    { e \in { Event(c, t, r) : c \in Channels, t \in TsValues, r \in TsValues \cup {NoThread} } :
        /\ \A m \in messages : ~(m.channel = e.channel /\ m.ts = e.ts)
        /\ e.thread_ts # NoThread =>
              \E m \in messages : /\ m.channel = e.channel
                                  /\ m.ts = e.thread_ts
                                  /\ m.thread_ts = NoThread }

\* event.get("thread_ts", event["ts"])
thread_ts_of(event) == IF event.thread_ts # NoThread THEN event.thread_ts ELSE event.ts

conversation_id_joined(channel_id, thread_ts) == channel_id \o thread_ts

\* f"{channel_id}:{thread_ts}"
conversation_id(channel_id, thread_ts) == channel_id \o ":" \o thread_ts

NeedsThread_always(threads, cid) == TRUE

\* app.py line 46: conversation_id not in active_threads
NeedsThread(threads, cid) == cid \notin DOMAIN threads

Handled(event, cid, handler) == [event |-> event, id |-> cid, handler |-> handler]

SlackInit ==
    /\ messages = {}
    /\ handled = {}
    /\ active_threads = << >>
    /\ remote_threads = 0
    /\ requested = {}
    /\ handler_nonbot = 0
    /\ handler_sent = 0
    /\ last_handling = [handler |-> "none"]

\* app.py get_or_create_thread, called by generate_response (line 71) whose
\* handler turns an exception of threads.create() into an apology text.
get_or_create_thread(cid, create_raises) ==
    IF NeedsThread(active_threads, cid)
    THEN IF create_raises
         THEN UNCHANGED <<active_threads, remote_threads, requested>>
         ELSE /\ remote_threads' = remote_threads + 1
              /\ active_threads' =
                    [c \in DOMAIN active_threads \cup {cid} |->
                        IF c = cid THEN remote_threads + 1 ELSE active_threads[c]]
              /\ requested' = requested \cup {cid}
    ELSE /\ requested' = requested \cup {cid}
         /\ UNCHANGED <<active_threads, remote_threads>>

\* say(text=..., thread_ts=...): the message as sent.
Said(text, thread_ts) == [text |-> text, thread_ts |-> thread_ts]

\* if event_type != "app_mention": ... if workspace_id ==
\* user_info["user"]["team_id"] or user_mentions: return
Filtered(app_mention, same_workspace, mentions) ==
    ~app_mention /\ (same_workspace \/ mentions)

\* What decides a run of handle_message_events: the user field, the type of
\* the event, a mention in its text, the sender's workspace, whether
\* users_info or auth_test raise, what is_response_required says, and
\* whether threads.create, the posting of the response and the say of the
\* except block raise, each only where the run gets to it.
AppRuns ==
    { r \in [has_user : BOOLEAN, app_mention : BOOLEAN, mentions : BOOLEAN,
             same_workspace : BOOLEAN, lookup_raises : BOOLEAN, required : BOOLEAN,
             create_raises : BOOLEAN, post_raises : BOOLEAN, apology_raises : BOOLEAN] :
        LET responds == /\ r.has_user /\ ~r.lookup_raises
                        /\ ~Filtered(r.app_mention, r.same_workspace, r.mentions)
                        /\ (r.app_mention \/ r.required)
        IN  /\ ~r.has_user => ~r.lookup_raises
            /\ (r.app_mention \/ ~r.has_user \/ r.lookup_raises
                  \/ Filtered(r.app_mention, r.same_workspace, r.mentions)) => ~r.required
            /\ ~responds => ~r.create_raises /\ ~r.post_raises
            /\ ~(r.lookup_raises \/ r.post_raises) => ~r.apology_raises }

AppHandling(event, r, failed_at, asked, generated, sent) ==
    [handler |-> "app", event |-> event, has_user |-> r.has_user,
     app_mention |-> r.app_mention, mentions |-> r.mentions,
     same_workspace |-> r.same_workspace, failed_at |-> failed_at,
     asked |-> asked, generated |-> generated, sent |-> sent]

\* The say of the except block, lines 226-230.
AppApology(event, say_raises) ==
    IF say_raises THEN << >> ELSE <<Said("apology", thread_ts_of(event))>>

\* app.py handle_message_events: events without a user are dropped; the
\* sender and the workspace are looked up; plain messages that mention a
\* user or come from the bot's own workspace are dropped; when the event is
\* an app_mention or is_response_required says so, the response is
\* generated under the conversation id and posted into the thread; an
\* exception of any of these ends in the say of the except block.
AppHandleMessageEvents ==
    /\ Cardinality(messages) < MaxEvents
    /\ \E event \in NewEvents, r \in AppRuns :
          /\ messages' = messages \cup {event}
          /\ IF ~r.has_user
             THEN /\ last_handling' = AppHandling(event, r, "none", FALSE, FALSE, << >>)
                  /\ UNCHANGED <<handled, active_threads, remote_threads, requested>>
             ELSE IF r.lookup_raises
             THEN /\ last_handling' = AppHandling(event, r, "lookup", FALSE, FALSE,
                                                  AppApology(event, r.apology_raises))
                  /\ UNCHANGED <<handled, active_threads, remote_threads, requested>>
             ELSE IF Filtered(r.app_mention, r.same_workspace, r.mentions)
             THEN /\ last_handling' = AppHandling(event, r, "none", FALSE, FALSE, << >>)
                  /\ UNCHANGED <<handled, active_threads, remote_threads, requested>>
             ELSE IF r.app_mention \/ r.required
             THEN LET cid == conversation_id(event.channel, thread_ts_of(event))
                  IN  /\ handled' = handled \cup {Handled(event, cid, "app")}
                      /\ get_or_create_thread(cid, r.create_raises)
                      /\ last_handling' =
                            AppHandling(event, r, IF r.post_raises THEN "post" ELSE "none",
                                        ~r.app_mention, TRUE,
                                        IF r.post_raises THEN AppApology(event, r.apology_raises)
                                        ELSE <<Said("response", thread_ts_of(event))>>)
             ELSE /\ last_handling' = AppHandling(event, r, "none", TRUE, FALSE, << >>)
                  /\ UNCHANGED <<handled, active_threads, remote_threads, requested>>
    /\ UNCHANGED <<handler_nonbot, handler_sent>>

Handling(event, bot_id, failed_at, generated, sent, apology) ==
    [handler |-> "handler", event |-> event, bot_id |-> bot_id, failed_at |-> failed_at,
     generated |-> generated, sent |-> sent, apology |-> apology]

\* The say of the except block, line 46: thread_ts is bound from line 32
\* on, and before that the call ends in an UnboundLocalError.
Apology(event, bound, say_raises) ==
    IF ~bound THEN [sent |-> << >>, apology |-> "unbound"]
    ELSE IF say_raises THEN [sent |-> << >>, apology |-> "raised"]
    ELSE [sent |-> <<Said("apology", thread_ts_of(event))>>, apology |-> "sent"]

\* What decides a run of the handler: the bot_id, a field that is missing,
\* and which of generate_response, the say of line 41 and the say of line
\* 46 raise, each only where the run gets to it.
HandlerRuns ==
    { r \in [bot_id : BOOLEAN, missing : {"none", "user", "text"},
             generate_raises : BOOLEAN, say_raises : BOOLEAN, apology_raises : BOOLEAN] :
        /\ r.bot_id => r.missing = "none" /\ ~r.generate_raises
        /\ r.missing # "none" => ~r.generate_raises /\ ~r.apology_raises
        /\ r.generate_raises => ~r.say_raises
        /\ (r.bot_id \/ r.missing # "none") => ~r.say_raises
        /\ (~r.generate_raises /\ ~r.say_raises) => ~r.apology_raises }

IsBotMessage_never(bot_id) == FALSE

\* if event.get("bot_id")
IsBotMessage(bot_id) == bot_id

\* utils/slack_handler.py handle_message: bot messages are ignored; the
\* event's fields are read, the response is generated under the
\* conversation id and sent into the thread; an exception of any of these
\* ends in the say of the except block.
SlackHandleMessage ==
    /\ Cardinality(messages) < MaxEvents
    /\ \E event \in NewEvents, r \in HandlerRuns :
          /\ messages' = messages \cup {event}
          /\ handler_nonbot' = IF r.bot_id THEN handler_nonbot ELSE handler_nonbot + 1
          /\ LET bot_id == r.bot_id
                 missing == r.missing
                 generate_raises == r.generate_raises
                 say_raises == r.say_raises
                 apology_raises == r.apology_raises
                 cid == conversation_id(event.channel, thread_ts_of(event))
                 failed_at == IF missing # "none" THEN "fields"
                              ELSE IF generate_raises THEN "generate_response"
                              ELSE IF say_raises THEN "say"
                              ELSE "none"
                 generated == ~IsBotMessage(bot_id) /\ missing = "none"
                 out == IF IsBotMessage(bot_id) THEN [sent |-> << >>, apology |-> "none"]
                        ELSE IF failed_at = "none"
                        THEN [sent |-> <<Said("response", thread_ts_of(event))>>, apology |-> "none"]
                        ELSE Apology(event, missing = "none", apology_raises)
             IN  /\ handled' = IF generated THEN handled \cup {Handled(event, cid, "handler")}
                               ELSE handled
                 /\ handler_sent' = handler_sent + Len(out.sent)
                 /\ last_handling' =
                       Handling(event, bot_id,
                                IF IsBotMessage(bot_id) THEN "none" ELSE failed_at,
                                generated, out.sent, out.apology)
          /\ UNCHANGED <<active_threads, remote_threads, requested>>

\* ------------------------------------------------------------------------
\* NotionPosterTool._create_checklist_blocks
\* ------------------------------------------------------------------------
max_blocks == 100

\* The sizes of a vendor's group and of a flat input: around the limit, and
\* such that a heading, the items and a divider can end at 99, 100 and 101.
Sizes == {0, 1, 97, 98, 99, 101}

Group(kind, n) == [items |-> kind, size |-> n]

\* A vendor of a DataFrame has the rows groupby gave it, at least one.
FrameGroups == { Group("rows", n) : n \in Sizes \ {0} }

\* A value of a vendor-grouped dict is a list, a dict or something else,
\* which gives the vendor no items.
DictGroups == { Group(k, n) : k \in {"list", "dict"}, n \in Sizes } \cup {Group("scalar", 0)}

SeqsUpTo(S, n) == UNION { [1..m -> S] : m \in 0..n }

Grouped(kind, groups) == [kind |-> kind, groups |-> groups]

\* A flat input is a group of its own.
Flat(kind, n) == [kind |-> kind, groups |-> <<Group(kind, n)>>]

\* The arguments: a DataFrame with a vendor column, a DataFrame without, a
\* dict with a list or dict among its values, a dict without, and a list.
ChecklistInputs ==
    { Grouped("frame_vendor", g) : g \in SeqsUpTo(FrameGroups, MaxVendors) }
    \cup { Flat("frame", n) : n \in Sizes }
    \cup { Grouped("dict_vendor", g) :
             g \in { h \in SeqsUpTo(DictGroups, MaxVendors) :
                       \E x \in 1..Len(h) : h[x].items \in {"list", "dict"} } }
    \cup { Flat("dict", n) : n \in Sizes }
    \cup { Flat("list", n) : n \in Sizes }

IsGrouped(d) == d.kind \in {"frame_vendor", "dict_vendor"}

\* total_blocks >= max_blocks
LimitHit(total) == total >= max_blocks

DividerFits_unchecked(i, vendors, total) == i < vendors - 1

\* i < len(vendors) - 1 and total_blocks < max_blocks
DividerFits(i, vendors, total) == i < vendors - 1 /\ total < max_blocks

ChecklistIdle ==
    /\ checklist_pc = "idle"
    /\ checklist_data = Flat("list", 0)
    /\ blocks = << >>
    /\ total_blocks = 0
    /\ vendor_i = 0
    /\ item_j = 0

\* The call: blocks = [], total_blocks = 0 and the branch on the argument's
\* type.
ChecklistStart ==
    /\ checklist_pc = "idle"
    /\ \E d \in ChecklistInputs :
          /\ checklist_data' = d
          /\ checklist_pc' = IF IsGrouped(d) THEN "vendors" ELSE "items"
    /\ blocks' = << >>
    /\ total_blocks' = 0
    /\ vendor_i' = 0
    /\ item_j' = 0

\* The head of the loop over the vendors: the vendor's heading, unless the
\* vendors are used up or the limit is hit.
ChecklistVendor ==
    /\ checklist_pc = "vendors"
    /\ IF vendor_i >= Len(checklist_data.groups) \/ LimitHit(total_blocks)
       THEN /\ checklist_pc' = "returned"
            /\ UNCHANGED <<blocks, total_blocks>>
       ELSE /\ blocks' = Append(blocks, "heading_3")
            /\ total_blocks' = total_blocks + 1
            /\ checklist_pc' = "vendor_items"
    /\ item_j' = 0
    /\ UNCHANGED <<checklist_data, vendor_i>>

\* The loop over the vendor's items: a to-do per item, until the items are
\* used up or the limit is hit.
ChecklistVendorItem ==
    /\ checklist_pc = "vendor_items"
    /\ IF item_j >= checklist_data.groups[vendor_i + 1].size \/ LimitHit(total_blocks)
       THEN /\ checklist_pc' = "divider"
            /\ UNCHANGED <<blocks, total_blocks, item_j>>
       ELSE /\ blocks' = Append(blocks, "to_do")
            /\ total_blocks' = total_blocks + 1
            /\ item_j' = item_j + 1
            /\ UNCHANGED checklist_pc
    /\ UNCHANGED <<checklist_data, vendor_i>>

\* The divider after every vendor but the last.
ChecklistDivider ==
    /\ checklist_pc = "divider"
    /\ IF DividerFits(vendor_i, Len(checklist_data.groups), total_blocks)
       THEN /\ blocks' = Append(blocks, "divider")
            /\ total_blocks' = total_blocks + 1
       ELSE UNCHANGED <<blocks, total_blocks>>
    /\ vendor_i' = vendor_i + 1
    /\ checklist_pc' = "vendors"
    /\ UNCHANGED <<checklist_data, item_j>>

\* The loops over the rows, the key-value pairs or the elements of an input
\* without vendors.
ChecklistItem ==
    /\ checklist_pc = "items"
    /\ IF item_j >= checklist_data.groups[1].size \/ LimitHit(total_blocks)
       THEN /\ checklist_pc' = "returned"
            /\ UNCHANGED <<blocks, total_blocks, item_j>>
       ELSE /\ blocks' = Append(blocks, "to_do")
            /\ total_blocks' = total_blocks + 1
            /\ item_j' = item_j + 1
            /\ UNCHANGED checklist_pc
    /\ UNCHANGED <<checklist_data, vendor_i>>

\* return blocks: the caller has them.
ChecklistReturn ==
    /\ checklist_pc = "returned"
    /\ checklist_pc' = "idle"
    /\ checklist_data' = Flat("list", 0)
    /\ blocks' = << >>
    /\ total_blocks' = 0
    /\ vendor_i' = 0
    /\ item_j' = 0

\* ------------------------------------------------------------------------
\* utils/db_connection.py
\* ------------------------------------------------------------------------
RETRY_ATTEMPTS == 3

\* The classes of exceptions: the module's own and those of the libraries
\* under it.
LibraryErrors == {"OSError", "InterfaceError"}

\* class DatabaseError(Exception), CredentialsError(DatabaseError),
\* ConnectionError(DatabaseError)
IsDatabaseError(e) == e \in {"DatabaseError", "CredentialsError", "ConnectionError"}

\* A configuration, by what of it leads somewhere: the credentials file,
\* the instance connection name, and the host with its user.
DatabaseConfigs == [credentials : BOOLEAN, instance : BOOLEAN, host : BOOLEAN]

NoError == "none"

Connection == [connection |-> TRUE]

Wrap_bare(e) == e

\* raise ConnectionError(...) from e
Wrap(e) == "ConnectionError"

\* What an attempt's body can end in, NoError being a connection: invalid
\* credentials end get_credentials in a CredentialsError, an invalid target
\* ends the connect call in an error of its library, and with a valid
\* configuration the connect call succeeds or fails for the moment.
AttemptOutcomes(credentials, target) ==
    IF ~credentials THEN {"CredentialsError"}
    ELSE IF ~target THEN LibraryErrors
    ELSE LibraryErrors \cup {NoError}

ContextManagers == {"get_db_connection", "get_db_cursor"}

CommitAfter_any(outcome) == TRUE

\* conn.commit() is the statement after yield cursor
CommitAfter(outcome) == outcome = "ok"

StopAfterAttempt_late(n) == n > RETRY_ATTEMPTS

\* stop_after_attempt(DB_CONFIG['RETRY_ATTEMPTS'])
StopAfterAttempt(n) == n >= RETRY_ATTEMPTS

DbIdle ==
    /\ db_pc = "idle"
    /\ db_config = [credentials |-> TRUE, instance |-> TRUE, host |-> TRUE]
    /\ is_cloud_run = FALSE
    /\ connector_attempts = 0
    /\ direct_attempts = 0
    /\ db_error = NoError
    /\ db_cause = NoError
    /\ conn = None
    /\ yielded = FALSE
    /\ db_manager = "get_db_connection"
    /\ db_body = "none"
    /\ db_calls = << >>

\* with get_db_connection(config): conn = None, and creator() begins with
\* the Cloud SQL Connector.
DbEnter ==
    /\ db_pc = "idle"
    /\ \E c \in DatabaseConfigs, k \in BOOLEAN, m \in ContextManagers :
          /\ db_config' = c
          /\ is_cloud_run' = k
          /\ db_manager' = m
    /\ db_body' = "none"
    /\ db_calls' = << >>
    /\ db_pc' = "connector"
    /\ connector_attempts' = 0
    /\ direct_attempts' = 0
    /\ db_error' = NoError
    /\ db_cause' = NoError
    /\ conn' = None
    /\ yielded' = FALSE

\* One attempt of create_connector_connection: the connection is yielded,
\* or the error is wrapped and the attempt repeated, and after the last
\* attempt the error reaches get_conn, which on Cloud Run lets it through
\* and elsewhere falls back to the direct connection.
DbConnectorAttempt ==
    /\ db_pc = "connector"
    /\ connector_attempts' = connector_attempts + 1
    /\ \E e \in AttemptOutcomes(db_config.credentials, db_config.instance) :
          IF e = NoError
          THEN /\ conn' = Connection
               /\ yielded' = TRUE
               /\ db_pc' = "yielded"
               /\ db_error' = NoError
               /\ db_cause' = NoError
          ELSE /\ db_error' = Wrap(e)
               /\ db_cause' = e
               /\ db_pc' = IF ~StopAfterAttempt(connector_attempts + 1) THEN "connector"
                           ELSE IF is_cloud_run THEN "raised"
                           ELSE "direct"
               /\ UNCHANGED <<conn, yielded>>
    /\ UNCHANGED <<db_config, is_cloud_run, direct_attempts, db_manager, db_body, db_calls>>

\* One attempt of create_direct_connection; after the last attempt the
\* error leaves get_conn and get_db_connection, whose finally finds conn
\* None.
DbDirectAttempt ==
    /\ db_pc = "direct"
    /\ direct_attempts' = direct_attempts + 1
    /\ \E e \in AttemptOutcomes(db_config.credentials, db_config.host) :
          IF e = NoError
          THEN /\ conn' = Connection
               /\ yielded' = TRUE
               /\ db_pc' = "yielded"
               /\ db_error' = NoError
               /\ db_cause' = NoError
          ELSE /\ db_error' = Wrap(e)
               /\ db_cause' = e
               /\ db_pc' = IF ~StopAfterAttempt(direct_attempts + 1) THEN "direct" ELSE "raised"
               /\ UNCHANGED <<conn, yielded>>
    /\ UNCHANGED <<db_config, is_cloud_run, connector_attempts, db_manager, db_body, db_calls>>

\* The body of with get_db_connection(...) ends, by its end or by an
\* exception, and the finally closes the connection; an exception of
\* close() is logged only.
DbExit ==
    /\ db_pc = "yielded"
    /\ db_manager = "get_db_connection"
    /\ \E outcome \in {"ok", "raised"} :
          /\ db_body' = outcome
          /\ db_error' = IF outcome = "ok" THEN NoError ELSE "BodyError"
          /\ db_pc' = IF outcome = "ok" THEN "closed" ELSE "failed"
    /\ db_calls' = Append(db_calls, "conn.close")
    /\ UNCHANGED <<db_config, is_cloud_run, connector_attempts, direct_attempts,
                   db_cause, conn, yielded, db_manager>>

\* get_db_cursor: cursor = conn.cursor(), whose exception leaves through
\* the finally of get_db_connection.
DbCursor ==
    /\ db_pc = "yielded"
    /\ db_manager = "get_db_cursor"
    /\ \E raises \in BOOLEAN :
          IF raises
          THEN /\ db_calls' = db_calls \o <<"conn.cursor", "conn.close">>
               /\ db_error' = "InterfaceError"
               /\ db_pc' = "failed"
          ELSE /\ db_calls' = Append(db_calls, "conn.cursor")
               /\ db_pc' = "cursor_yielded"
               /\ UNCHANGED db_error
    /\ UNCHANGED <<db_config, is_cloud_run, connector_attempts, direct_attempts,
                   db_cause, conn, yielded, db_manager, db_body>>

\* get_db_cursor: the body of the with-statement runs at yield cursor, and
\* conn.commit() follows when it ends without an exception.
DbCursorBody ==
    /\ db_pc = "cursor_yielded"
    /\ \E outcome \in {"ok", "raised"} :
          /\ db_body' = outcome
          /\ IF CommitAfter(outcome)
             THEN \E raises \in BOOLEAN :
                     /\ db_calls' = Append(db_calls, "conn.commit")
                     /\ db_error' = IF raises THEN "InterfaceError"
                                    ELSE IF outcome = "ok" THEN NoError ELSE "BodyError"
             ELSE /\ db_error' = "BodyError"
                  /\ UNCHANGED db_calls
    /\ db_pc' = "cursor_finally"
    /\ UNCHANGED <<db_config, is_cloud_run, connector_attempts, direct_attempts,
                   db_cause, conn, yielded, db_manager>>

\* get_db_cursor: finally cursor.close(), whose exception takes the place of
\* the one in flight; then the finally of get_db_connection closes the
\* connection.
DbCursorExit ==
    /\ db_pc = "cursor_finally"
    /\ db_calls' = db_calls \o <<"cursor.close", "conn.close">>
    /\ \E raises \in BOOLEAN :
          /\ db_error' = IF raises THEN "InterfaceError" ELSE db_error
          /\ db_pc' = IF raises \/ db_error # NoError THEN "failed" ELSE "closed"
    /\ UNCHANGED <<db_config, is_cloud_run, connector_attempts, direct_attempts,
                   db_cause, conn, yielded, db_manager, db_body>>

\* The with-statement is over, by its end or by the exception.
DbReturn ==
    /\ db_pc \in {"closed", "raised", "failed"}
    /\ db_pc' = "idle"
    /\ db_config' = [credentials |-> TRUE, instance |-> TRUE, host |-> TRUE]
    /\ is_cloud_run' = FALSE
    /\ connector_attempts' = 0
    /\ direct_attempts' = 0
    /\ db_error' = NoError
    /\ db_cause' = NoError
    /\ conn' = None
    /\ yielded' = FALSE
    /\ db_manager' = "get_db_connection"
    /\ db_body' = "none"
    /\ db_calls' = << >>

\* ------------------------------------------------------------------------
\* The HTTP endpoints: main.py and app.py
\* ------------------------------------------------------------------------
\* What payload.get(key) gives for a key the payload has not.
Null == "null"

PayloadTypes == {"url_verification", "event_callback"}
Challenges == {"ch1", "ch2"}
EventTypes == {"app_mention", "message", "reaction_added"}
Tokens == {"tok"}

\* The JSON objects posted to /slack/events, any of the keys token, type,
\* challenge and event (by the type of the event) being there or not.
Payloads ==
    { p \in UNION { [K -> Tokens \cup PayloadTypes \cup Challenges \cup EventTypes] :
                      K \in SUBSET {"token", "type", "challenge", "event"} } :
        /\ "token" \in DOMAIN p => p["token"] \in Tokens
        /\ "type" \in DOMAIN p => p["type"] \in PayloadTypes
        /\ "challenge" \in DOMAIN p => p["challenge"] \in Challenges
        /\ "event" \in DOMAIN p => p["event"] \in EventTypes }

\* payload.get(key)
Get(payload, key) == IF key \in DOMAIN payload THEN payload[key] ELSE Null

SlackRequest(valid, payload) ==
    [endpoint |-> "/slack/events", valid_json |-> valid, payload |-> payload]

\* The bodies posted to /slack/events: a JSON object, or no JSON at all.
SlackRequests ==
    { SlackRequest(TRUE, p) : p \in Payloads } \cup { SlackRequest(FALSE, << >>) }

Response(status, body) == [status |-> status, body |-> body]

NoResponse == Response(0, [none |-> TRUE])

ChallengeResponse_ok(challenge) == [ok |-> TRUE]

\* {"challenge": challenge}
ChallengeResponse(challenge) == [challenge |-> challenge]

\* str(e) of an exception
StrOf(e) == [str |-> e]

HTTPException(status_code, detail) ==
    [exception |-> "HTTPException", status_code |-> status_code, detail |-> detail]

\* What notion_tool.run() at line 124 gives line 126: the dict of a created
\* page, a dict with an 'error' key as line 126 provides for, or an
\* exception.
ToolResults ==
    { [kind |-> "value", value |-> [status |-> "created", page_id |-> "p1", url |-> "u1"]],
      [kind |-> "value", value |-> [error |-> "e1"]],
      [kind |-> "value", value |-> [error |-> "e2"]],
      [kind |-> "raise", value |-> [exception |-> "APIResponseError"]] }

InventoryRequest(secrets, result) ==
    [endpoint |-> "/inventory/report", secrets |-> secrets, result |-> result]

InventoryRequests == { InventoryRequest(k, r) : k \in BOOLEAN, r \in ToolResults }

HttpIdle ==
    /\ http_pc = "idle"
    /\ http_request = SlackRequest(FALSE, << >>)
    /\ http_response = NoResponse
    /\ dispatched = FALSE

\* main.py slack_events: the challenge of a url_verification payload is
\* sent back; every other payload is answered ok without being handled;
\* a body that is no JSON ends in the handler's answer.
slack_events ==
    /\ http_pc = "idle"
    /\ \E r \in SlackRequests :
          /\ http_request' = r
          /\ http_response' =
                IF ~r.valid_json
                THEN Response(200, [ok |-> FALSE, error |-> StrOf("JSONDecodeError")])
                ELSE IF Get(r.payload, "type") = "url_verification"
                THEN Response(200, ChallengeResponse(Get(r.payload, "challenge")))
                ELSE Response(200, [ok |-> TRUE])
    /\ dispatched' = FALSE
    /\ http_pc' = "responded"

\* app.py endpoint: a body with a challenge gets it back; every other body
\* goes to the SlackRequestHandler, whose exception, like that of a body
\* that is no JSON, ends in status 500.
endpoint ==
    /\ http_pc = "idle"
    /\ \E r \in SlackRequests, handler_raises \in BOOLEAN :
          /\ http_request' = r
          /\ IF ~r.valid_json
             THEN /\ http_response' = Response(500, [error |-> StrOf("JSONDecodeError")])
                  /\ dispatched' = FALSE
             ELSE IF "challenge" \in DOMAIN r.payload
             THEN /\ http_response' = Response(200, ChallengeResponse(r.payload["challenge"]))
                  /\ dispatched' = FALSE
             ELSE /\ http_response' =
                        IF handler_raises THEN Response(500, [error |-> StrOf("BoltError")])
                        ELSE Response(200, [handled |-> TRUE])
                  /\ dispatched' = TRUE
    /\ http_pc' = "responded"

\* main.py create_inventory_report: the secrets, the tool's run and the
\* test of its result for 'error' are all inside the try, whose handler
\* answers every Exception, the HTTPException of line 127 among them, with
\* status 500.
create_inventory_report ==
    /\ http_pc = "idle"
    /\ \E r \in InventoryRequests :
          /\ http_request' = r
          /\ http_response' =
                IF ~r.secrets
                THEN Response(500, [detail |-> StrOf([exception |-> "PermissionDenied"])])
                ELSE IF r.result.kind = "raise"
                THEN Response(500, [detail |-> StrOf(r.result.value)])
                ELSE IF "error" \in DOMAIN r.result.value
                THEN Response(500, [detail |-> StrOf(HTTPException(400, r.result.value.error))])
                ELSE Response(200, r.result.value)
    /\ dispatched' = FALSE
    /\ http_pc' = "responded"

\* The response is out.
HttpReturn ==
    /\ http_pc = "responded"
    /\ http_pc' = "idle"
    /\ http_request' = SlackRequest(FALSE, << >>)
    /\ http_response' = NoResponse
    /\ dispatched' = FALSE

\* ------------------------------------------------------------------------
\* ReportingManager.handle_message
\* ------------------------------------------------------------------------
ManagerMessages == {"reorder milk", "Stock of eggs", "top sellers", "sales by vendor"}

\* "reorder" in message.lower() or "stock" in message.lower()
IsReorderingQuery(message) == message \in {"reorder milk", "Stock of eggs"}

\* What SQLQueryTool(...).run() gives: the JSON of an error (SQL generation
\* or execution), the JSON of a stored result, or an exception of the
\* tool's construction.
SqlOutcomes ==
    { [kind |-> "error", error |-> e] : e \in Errors }
    \cup { [kind |-> "stored", sql_query |-> "q1", gcs_uris |-> t] : t \in Timestamps }
    \cup { [kind |-> "raise"] }

\* What FileReaderTool(...).run() gives: its text, its "Error: ..." text, or
\* an exception of the tool's construction.
ReaderOutcomes == {"summary", "Error: read", "raise"}

\* What _export_to_notion gives: the page's dict, or None.
NotionOutcomes == {"url", "None"}

ManagerRun(sql, reader, notion) == [sql |-> sql, reader |-> reader, notion |-> notion]

NoRun == ManagerRun([kind |-> "none"], "none", "none")

\* The dict of the early return (276-280) and of the handler (339-343).
ErrorResponse(text, message) ==
    [natural_response |-> "Error: " \o text, query |-> message, execution_time |-> "now"]

\* The dict of Step 5.
FullResponse(message, sql, context) ==
    [natural_response |-> "found: " \o context, query |-> message,
     sql_query |-> sql.sql_query, gcs_uris |-> sql.gcs_uris,
     execution_time |-> "now", initial_context |-> context]

ManagerIdle ==
    /\ manager_pc = "idle"
    /\ manager_message = "top sellers"
    /\ manager_run = NoRun
    /\ manager_response = << >>

\* handle_message: the SQL tool's error ends in the early return; an
\* exception anywhere ends in the handler's return; otherwise the file
\* reader's text, and for a reordering query the Notion page, go into the
\* response of Step 5.
handle_message ==
    /\ manager_pc = "idle"
    /\ \E message \in ManagerMessages, sql \in SqlOutcomes, reader \in ReaderOutcomes,
          notion \in NotionOutcomes :
          /\ manager_message' = message
          /\ manager_run' = ManagerRun(sql, reader, notion)
          /\ manager_response' =
                IF sql.kind = "raise" THEN ErrorResponse("Error processing query: sql", message)
                ELSE IF sql.kind = "error" THEN ErrorResponse(sql.error, message)
                ELSE IF reader = "raise" THEN ErrorResponse("Error processing query: reader", message)
                ELSE IF IsReorderingQuery(message) /\ notion = "url"
                THEN [k \in DOMAIN FullResponse(message, sql, reader) \cup {"notion_url"} |->
                        IF k = "notion_url" THEN "url"
                        ELSE FullResponse(message, sql, reader)[k]]
                ELSE FullResponse(message, sql, reader)
    /\ manager_pc' = "returned"

\* The caller has the dict.
ManagerReturn ==
    /\ manager_pc = "returned"
    /\ manager_pc' = "idle"
    /\ manager_message' = "top sellers"
    /\ manager_run' = NoRun
    /\ manager_response' = << >>

\* ------------------------------------------------------------------------
\* app.py generate_response
\* ------------------------------------------------------------------------
GenConversations == {"C1:1", "C12:21"}

\* The statuses of a run: those that end the polling loop, and the others.
CompletedStatus == "completed"
FailedStatuses == {"failed", "cancelled", "expired"}
PendingStatuses == {"queued", "in_progress", "requires_action", "cancelling"}
NoRunYet == "none"

\* The run at the remote API moves on: from queued to in_progress, from
\* there to its end or to requires_action or cancelling, and from those to
\* expired and cancelled.
RunSuccessors(status) ==
    CASE status = "queued" -> {"in_progress"}
      [] status = "in_progress" ->
            {CompletedStatus, "failed", "expired", "requires_action", "cancelling"}
      [] status = "requires_action" -> {"in_progress", "expired", "cancelling"}
      [] status = "cancelling" -> {"cancelled"}
      [] OTHER -> {}

ThreadMessage(role, text) == [role |-> role, text |-> text]

\* messages.data of messages.list, newest first.
MessageLists ==
    { <<ThreadMessage("assistant", "answer 2"), ThreadMessage("user", "question"),
        ThreadMessage("assistant", "answer 1")>>,
      <<ThreadMessage("assistant", "answer 1"), ThreadMessage("user", "question")>>,
      <<ThreadMessage("user", "question")>> }

\* for msg in messages.data: if msg.role == "assistant": ... break; else:
\* "No response generated"
LatestAssistantMessage(data) ==
    LET hits == { i \in 1..Len(data) : data[i].role = "assistant" }
    IN  IF hits = {} THEN "No response generated"
        ELSE data[CHOOSE i \in hits : \A j \in hits : i <= j].text

\* f"I apologize, but I encountered an error: {str(e)}"
ApologyText(e) == "I apologize, but I encountered an error: " \o e

GenIdle ==
    /\ gen_pc = "idle"
    /\ gen_conversation = "C1:1"
    /\ gen_thread_id = 0
    /\ run_status = NoRunYet
    /\ thread_messages = << >>
    /\ gen_response = ""

GenRaise(e) ==
    /\ gen_pc' = "returned"
    /\ gen_response' = ApologyText(e)

\* The call.
GenStart ==
    /\ gen_pc = "idle"
    /\ \E cid \in GenConversations : gen_conversation' = cid
    /\ gen_pc' = "get_thread"
    /\ UNCHANGED <<gen_thread_id, run_status, thread_messages, gen_response>>
    /\ UNCHANGED <<active_threads, remote_threads, requested>>

\* thread_info = get_or_create_thread(conversation_id)
GenGetThread ==
    /\ gen_pc = "get_thread"
    /\ \E create_raises \in BOOLEAN :
          /\ get_or_create_thread(gen_conversation, create_raises)
          /\ IF NeedsThread(active_threads, gen_conversation) /\ create_raises
             THEN GenRaise("threads.create") /\ UNCHANGED gen_thread_id
             ELSE /\ gen_thread_id' = active_threads'[gen_conversation]
                  /\ gen_pc' = "add_message"
                  /\ UNCHANGED gen_response
    /\ UNCHANGED <<gen_conversation, run_status, thread_messages>>

\* assistant_client.beta.threads.messages.create(...)
GenAddMessage ==
    /\ gen_pc = "add_message"
    /\ \/ gen_pc' = "create_run" /\ UNCHANGED gen_response
       \/ GenRaise("messages.create")
    /\ UNCHANGED <<gen_conversation, gen_thread_id, run_status, thread_messages>>
    /\ UNCHANGED <<active_threads, remote_threads, requested>>

\* run = assistant_client.beta.threads.runs.create(...)
GenCreateRun ==
    /\ gen_pc = "create_run"
    /\ \/ /\ gen_pc' = "poll"
          /\ run_status' = "queued"
          /\ UNCHANGED gen_response
       \/ GenRaise("runs.create") /\ UNCHANGED run_status
    /\ UNCHANGED <<gen_conversation, gen_thread_id, thread_messages>>
    /\ UNCHANGED <<active_threads, remote_threads, requested>>

\* The run at the remote API, while generate_response polls it.
RunProgress ==
    /\ gen_pc = "poll"
    /\ \E status \in RunSuccessors(run_status) : run_status' = status
    /\ UNCHANGED <<gen_pc, gen_conversation, gen_thread_id, thread_messages, gen_response>>
    /\ UNCHANGED <<active_threads, remote_threads, requested>>

\* One turn of while True whose runs.retrieve answered: break on completed,
\* raise on failed, cancelled and expired, and once more otherwise.
GenPollTurn ==
    /\ gen_pc = "poll"
    /\ IF run_status = CompletedStatus
       THEN gen_pc' = "list_messages" /\ UNCHANGED gen_response
       ELSE IF run_status \in FailedStatuses
       THEN GenRaise("Run failed with status: " \o run_status)
       ELSE UNCHANGED <<gen_pc, gen_response>>
    /\ UNCHANGED <<gen_conversation, gen_thread_id, run_status, thread_messages>>

\* One turn of while True, runs.retrieve answering or raising.
GenPoll ==
    /\ gen_pc = "poll"
    /\ \/ GenPollTurn
       \/ /\ GenRaise("runs.retrieve")
          /\ UNCHANGED <<gen_conversation, gen_thread_id, run_status, thread_messages>>
    /\ UNCHANGED <<active_threads, remote_threads, requested>>

\* messages.list and the latest assistant message of it.
GenListMessages ==
    /\ gen_pc = "list_messages"
    /\ \/ \E data \in MessageLists :
             /\ thread_messages' = data
             /\ gen_response' = LatestAssistantMessage(data)
             /\ gen_pc' = "returned"
       \/ GenRaise("messages.list") /\ UNCHANGED thread_messages
    /\ UNCHANGED <<gen_conversation, gen_thread_id, run_status>>
    /\ UNCHANGED <<active_threads, remote_threads, requested>>

\* The caller has the string.
GenReturn ==
    /\ gen_pc = "returned"
    /\ gen_pc' = "idle"
    /\ gen_conversation' = "C1:1"
    /\ gen_thread_id' = 0
    /\ run_status' = NoRunYet
    /\ thread_messages' = << >>
    /\ gen_response' = ""
    /\ UNCHANGED <<active_threads, remote_threads, requested>>

\* ------------------------------------------------------------------------
\* app.py get_or_create_thread under concurrent handlers
\* ------------------------------------------------------------------------
\* The threads of the listener pool that run handle_message_events.
HandlerThreads == {1, 2}

ThreadsIdle ==
    /\ th_pc = [p \in HandlerThreads |-> "idle"]
    /\ th_cid = [p \in HandlerThreads |-> "C1:1"]
    /\ th_thread = [p \in HandlerThreads |-> 0]
    /\ th_result = [p \in HandlerThreads |-> 0]
    /\ th_created = {}

\* The call of get_or_create_thread(conversation_id).
ThCall(p) ==
    /\ th_pc[p] = "idle"
    /\ \E cid \in GenConversations : th_cid' = [th_cid EXCEPT ![p] = cid]
    /\ th_pc' = [th_pc EXCEPT ![p] = "check"]
    /\ UNCHANGED <<th_thread, th_result, th_created, active_threads, remote_threads, requested>>

\* if conversation_id not in active_threads
ThCheck(p) ==
    /\ th_pc[p] = "check"
    /\ th_pc' = [th_pc EXCEPT ![p] =
                    IF NeedsThread(active_threads, th_cid[p]) THEN "create" ELSE "return"]
    /\ UNCHANGED <<th_cid, th_thread, th_result, th_created, active_threads, remote_threads,
                   requested>>

\* thread = assistant_client.beta.threads.create(), which creates the
\* remote thread or raises.
ThCreate(p) ==
    /\ th_pc[p] = "create"
    /\ \/ /\ remote_threads' = remote_threads + 1
          /\ th_thread' = [th_thread EXCEPT ![p] = remote_threads + 1]
          /\ th_created' = th_created \cup {[cid |-> th_cid[p], thread_id |-> remote_threads + 1]}
          /\ th_pc' = [th_pc EXCEPT ![p] = "store"]
       \/ /\ th_pc' = [th_pc EXCEPT ![p] = "raised"]
          /\ UNCHANGED <<remote_threads, th_thread, th_created>>
    /\ UNCHANGED <<th_cid, th_result, active_threads, requested>>

\* active_threads[conversation_id] = {"thread_id": thread.id, "messages": []}
ThStore(p) ==
    /\ th_pc[p] = "store"
    /\ active_threads' =
          [c \in DOMAIN active_threads \cup {th_cid[p]} |->
              IF c = th_cid[p] THEN th_thread[p] ELSE active_threads[c]]
    /\ th_pc' = [th_pc EXCEPT ![p] = "return"]
    /\ UNCHANGED <<th_cid, th_thread, th_result, th_created, remote_threads, requested>>

\* return active_threads[conversation_id]
ThReturn(p) ==
    /\ th_pc[p] = "return"
    /\ th_result' = [th_result EXCEPT ![p] = active_threads[th_cid[p]]]
    /\ requested' = requested \cup {th_cid[p]}
    /\ th_pc' = [th_pc EXCEPT ![p] = "done"]
    /\ UNCHANGED <<th_cid, th_thread, th_created, active_threads, remote_threads>>

\* Both handlers are through with their calls.
ThDone ==
    /\ \A p \in HandlerThreads : th_pc[p] \in {"done", "raised"}
    /\ th_pc' = [p \in HandlerThreads |-> "idle"]
    /\ th_cid' = [p \in HandlerThreads |-> "C1:1"]
    /\ th_thread' = [p \in HandlerThreads |-> 0]
    /\ th_result' = [p \in HandlerThreads |-> 0]
    /\ UNCHANGED <<th_created, active_threads, remote_threads, requested>>

\* ------------------------------------------------------------------------
\* utils/firebase_db.py: SlackThreadStorage over the Firestore collection
\* 'slack-chats'
\* ------------------------------------------------------------------------
StorageChannel == "C1"
StorageThreads == {"1", "21"}
MessageTs == {"2", "3"}
Contents == {"a", "b"}
StorageConversations == {conversation_id(StorageChannel, t) : t \in StorageThreads}

\* An empty dict.
EmptyDict == [k \in {} |-> None]

\* d[key] = value on a dict.
SetItem(d, key, value) == [k \in DOMAIN d \cup {key} |-> IF k = key THEN value ELSE d[k]]

\* thread_data of save_thread; the timestamps, the ids and the empty
\* metadata play no part here.
thread_data(initial_message) ==
    [initial_message |-> initial_message, is_active |-> TRUE, message_count |-> 1]

\* The read of get_threads_from_db: the document's 'threads', {} when the
\* document does not exist, and {} as well when the read raises.
get_threads_from_db(cid, read_raises) == IF read_raises THEN EmptyDict ELSE slack_chats[cid]

\* DocumentReference.set(data) with merge=False: the document becomes the
\* data written.
SetDocument_overwrite(old, threads) == threads

\* One thread's map under set(..., merge=True).
MergeThread(old, new) ==
    [k \in DOMAIN old \cup DOMAIN new |->
        IF k \notin DOMAIN new THEN old[k]
        ELSE IF k = "messages" /\ k \in DOMAIN old
             THEN [m \in DOMAIN old[k] \cup DOMAIN new[k] |->
                      IF m \in DOMAIN new[k] THEN new[k][m] ELSE old[k][m]]
             ELSE new[k]]

\* DocumentReference.set({'threads': threads, ...}, merge=True): the update
\* mask holds the leaves of the data written, so nested maps are merged key
\* by key and what the data does not name stays in the document.
SetDocument(old, threads) ==
    [t \in DOMAIN old \cup DOMAIN threads |->
        IF t \notin DOMAIN threads THEN old[t]
        ELSE IF t \notin DOMAIN old THEN threads[t]
        ELSE MergeThread(old[t], threads[t])]

\* The collection after save_threads_to_db(cid, threads) went through.
save_threads_to_db(cid, threads) ==
    [slack_chats EXCEPT ![cid] = SetDocument(@, threads)]

\* Lines 161-173 on the thread read: the message is put under message_ts and
\* message_count becomes len(messages).
WithMessage(thread, message_ts, content) ==
    LET old == IF "messages" \in DOMAIN thread THEN thread.messages ELSE EmptyDict
        new == SetItem(old, message_ts, content)
    IN  [k \in DOMAIN thread \cup {"messages"} |->
            IF k = "messages" THEN new
            ELSE IF k = "message_count" THEN Cardinality(DOMAIN new)
            ELSE thread[k]]

\* existing_threads[thread_ts].update(updates)
Updated(thread, updates) ==
    [k \in DOMAIN thread \cup DOMAIN updates |->
        IF k \in DOMAIN updates THEN updates[k] ELSE thread[k]]

ThreadUpdates == {[is_active |-> b] : b \in BOOLEAN}

StCall(op, thread_ts, outcome) == [op |-> op, thread_ts |-> thread_ts, outcome |-> outcome]

AddCalls == {1, 2}
\* The two concurrent calls differ in message_ts.
AddMessageTs(p) == IF p = 1 THEN "2" ELSE "3"
AddContent(p) == IF p = 1 THEN "a" ELSE "b"

StorageIdle ==
    /\ slack_chats = [c \in StorageConversations |-> EmptyDict]
    /\ st_last = StCall("none", "", "none")
    /\ add_pc = [p \in AddCalls |-> "idle"]
    /\ add_threads = [p \in AddCalls |-> EmptyDict]
    /\ add_thread_ts = ""

\* save_thread, lines 68-103.
save_thread ==
    \E thread_ts \in StorageThreads, initial \in Contents, read_raises, save_raises \in BOOLEAN :
        LET cid == conversation_id(StorageChannel, thread_ts)
            existing_threads == SetItem(get_threads_from_db(cid, read_raises), thread_ts,
                                        thread_data(initial))
        IN  /\ slack_chats' = IF save_raises THEN slack_chats ELSE save_threads_to_db(cid, existing_threads)
            /\ st_last' = StCall("save_thread", thread_ts,
                                 IF save_raises THEN "raised" ELSE "returned")
            /\ UNCHANGED <<add_pc, add_threads, add_thread_ts>>

\* The body of update_thread, lines 105-131, for the updates given.
UpdateThread(op, thread_ts, updates, read_raises, save_raises) ==
    LET cid == conversation_id(StorageChannel, thread_ts)
        existing_threads == get_threads_from_db(cid, read_raises)
        found == thread_ts \in DOMAIN existing_threads
        ok == found /\ ~save_raises
    IN  /\ slack_chats' = IF ok
                    THEN save_threads_to_db(cid, SetItem(existing_threads, thread_ts,
                                 Updated(existing_threads[thread_ts], updates)))
                    ELSE slack_chats
        /\ st_last' = StCall(op, thread_ts, IF ok THEN "returned" ELSE "raised")
        /\ UNCHANGED <<add_pc, add_threads, add_thread_ts>>

update_thread ==
    \E thread_ts \in StorageThreads, updates \in ThreadUpdates, read_raises, save_raises \in BOOLEAN :
        UpdateThread("update_thread", thread_ts, updates, read_raises, save_raises)

\* close_thread, lines 203-215: update_thread with {'is_active': False}.
close_thread ==
    \E thread_ts \in StorageThreads, read_raises, save_raises \in BOOLEAN :
        UpdateThread("close_thread", thread_ts, [is_active |-> FALSE], read_raises, save_raises)

\* add_message_to_thread, lines 144-180, made alone.
add_message_to_thread ==
    \E thread_ts \in StorageThreads, message_ts \in MessageTs, content \in Contents,
       read_raises, save_raises \in BOOLEAN :
        LET cid == conversation_id(StorageChannel, thread_ts)
            threads == get_threads_from_db(cid, read_raises)
            found == thread_ts \in DOMAIN threads
            ok == found /\ ~save_raises
        IN  /\ slack_chats' = IF ok
                        THEN save_threads_to_db(cid, SetItem(threads, thread_ts,
                                 WithMessage(threads[thread_ts], message_ts, content)))
                        ELSE slack_chats
            /\ st_last' = StCall("add_message_to_thread", thread_ts,
                                 IF ok THEN "returned" ELSE "raised")
            /\ UNCHANGED <<add_pc, add_threads, add_thread_ts>>

\* Two add_message_to_thread calls on one existing thread at the same time,
\* statement by statement. The thread exists: a save_thread returned for it,
\* and it may hold a message already.
AddBegin ==
    /\ add_thread_ts = ""
    /\ \E thread_ts \in StorageThreads, initial \in Contents, earlier \in BOOLEAN :
          LET cid == conversation_id(StorageChannel, thread_ts)
              fresh == thread_data(initial)
              thread == IF earlier THEN WithMessage(fresh, "1", initial) ELSE fresh
          IN  /\ slack_chats' = [slack_chats EXCEPT ![cid] = SetItem(EmptyDict, thread_ts, thread)]
              /\ add_thread_ts' = thread_ts
    /\ add_pc' = [p \in AddCalls |-> "called"]
    /\ UNCHANGED <<st_last, add_threads>>

\* Line 155 and the check of 157.
AddRead(p) ==
    /\ add_pc[p] = "called"
    /\ \E read_raises \in BOOLEAN :
          LET threads == get_threads_from_db(conversation_id(StorageChannel, add_thread_ts),
                                             read_raises)
          IN  /\ add_threads' = [add_threads EXCEPT ![p] = threads]
              /\ add_pc' = [add_pc EXCEPT ![p] = IF add_thread_ts \in DOMAIN threads
                                                  THEN "read" ELSE "raised"]
    /\ UNCHANGED <<slack_chats, st_last, add_thread_ts>>

\* Lines 161-176: the message is added to the local threads, which are saved.
AddSave(p) ==
    /\ add_pc[p] = "read"
    /\ \E save_raises \in BOOLEAN :
          LET threads == SetItem(add_threads[p], add_thread_ts,
                                 WithMessage(add_threads[p][add_thread_ts], AddMessageTs(p),
                                             AddContent(p)))
          IN  /\ add_threads' = [add_threads EXCEPT ![p] = threads]
              /\ slack_chats' = IF save_raises THEN slack_chats
                          ELSE save_threads_to_db(conversation_id(StorageChannel, add_thread_ts),
                                                  threads)
              /\ add_pc' = [add_pc EXCEPT ![p] = IF save_raises THEN "raised" ELSE "returned"]
    /\ UNCHANGED <<st_last, add_thread_ts>>

\* Both calls are over; the collection is emptied for the next pair.
AddDone ==
    /\ \A p \in AddCalls : add_pc[p] \in {"returned", "raised"}
    /\ add_pc' = [p \in AddCalls |-> "idle"]
    /\ add_threads' = [p \in AddCalls |-> EmptyDict]
    /\ add_thread_ts' = ""
    /\ slack_chats' = [c \in StorageConversations |-> EmptyDict]
    /\ UNCHANGED st_last

\* ------------------------------------------------------------------------
\* reporting_manager/tools/SQLQueryTool.py
\* ------------------------------------------------------------------------
\* A Decimal, an empty string and another value.
SqlValues == {"decimal", "", "x"}
SqlColumnNames == {"name", "price"}
SqlRows == UNION { [1..k -> SqlValues] : k \in 0..MaxWidth }

\* What _convert_to_dataframe is given: a list of tuples, a list of bare
\* values, or a value that is no list.
SqlResults ==
    { [kind |-> "rows", data |-> d] : d \in UNION { [1..n -> SqlRows] : n \in 0..MaxTupleRows } }
    \cup { [kind |-> "scalars", data |-> d] :
              d \in UNION { [1..n -> SqlValues] : n \in 1..MaxTupleRows } }
    \cup { [kind |-> "value", data |-> v] : v \in SqlValues }

\* provided_columns; << >> stands for [] and for None, both falsy.
SqlColumnLists == UNION { [1..k -> SqlColumnNames] : k \in 0..(MaxWidth + 1) }

\* convert_value, lines 169-174.
convert_value(val) ==
    CASE val = "decimal" -> "float"
      [] val = ""        -> "None"
      [] OTHER           -> val

\* {col: convert_value(val) for col, val in zip(columns, row)}: zip stops at
\* the shorter of the two, and a repeated key keeps its latest value.
row_data(columns, row) ==
    LET n == Min(Len(columns), Len(row))
    IN  [c \in {columns[j] : j \in 1..n} |->
            convert_value(row[CHOOSE j \in 1..n :
                /\ columns[j] = c
                /\ \A l \in 1..n : columns[l] = c => l <= j])]

\* pd.DataFrame(data) for a list of dicts: one row per dict, and the columns
\* are the keys in the order they first appear.
SqlFrame(data) ==
    [records |-> data,
     columns |-> Dedup(Flatten([i \in 1..Len(data) |->
                     LET keys == DOMAIN data[i]
                     IN  SelectSeq(<<"value", "column_0", "column_1", "column_2", "column_3",
                                     "name", "price">>,
                                   LAMBDA c : c \in keys)]))]

SqlEmptyFrame == [records |-> << >>, columns |-> << >>]

\* df.empty
SqlFrameEmpty(f) == f.records = << >> \/ f.columns = << >>

\* Lines 179-185: the columns, provided or generated.
SqlColumns(res, provided_columns) ==
    IF provided_columns # << >> THEN provided_columns
    ELSE IF res.kind = "rows"
         THEN [i \in 1..Len(res.data[1]) |-> ColumnName(i - 1)]
         ELSE <<ColumnName(0)>>

\* A dict of one key.
OneKey(key, value) == [c \in {key} |-> value]

\* not results, line 164: an empty list or an empty string.
Falsy(res) == IF res.kind = "value" THEN res.data = "" ELSE res.data = << >>

\* _convert_to_dataframe, lines 160-205.
SqlTool_convert_to_dataframe(res, provided_columns) ==
    IF Falsy(res)
    THEN SqlEmptyFrame
    ELSE IF res.kind = "value"
    THEN SqlFrame(<<OneKey(IF provided_columns # << >> THEN provided_columns[1] ELSE "value",
                           convert_value(res.data))>>)
    ELSE LET columns == SqlColumns(res, provided_columns)
         IN  SqlFrame([i \in 1..Len(res.data) |->
                 IF res.kind = "rows"
                 THEN row_data(columns, res.data[i])
                 ELSE OneKey(columns[1], convert_value(res.data[i]))])

\* json.dump(json_data, indent=2, ensure_ascii=False), line 228: the call
\* names no file to write to and raises TypeError.
JsonDumpRaises == TRUE

SqlBasePath == "inventory_results/query_results_t1"

SqlFile(path, content) == [path |-> path, content |-> content]

\* _save_results, lines 207-235: the paths it returns and the files it
\* leaves, given whether df.to_csv raises.
SqlTool_save_results(fr, base_path, csv_raises) ==
    LET csv_path == base_path \o ".csv"
        json_path == base_path \o ".json"
    IN  IF SqlFrameEmpty(fr) THEN [paths |-> {}, files |-> {}]
        ELSE IF csv_raises THEN [paths |-> {}, files |-> {}]
        ELSE IF JsonDumpRaises
        THEN [paths |-> {"csv"},
              files |-> {SqlFile(csv_path, "csv"), SqlFile(json_path, "nothing")}]
        ELSE [paths |-> {"csv", "json"},
              files |-> {SqlFile(csv_path, "csv"), SqlFile(json_path, "json")}]

SqlNoReturn == [type |-> "none"]
SqlErrorReturn == [type |-> "error"]

\* What the agent and the database give a run: the agent raises, answers
\* with something that is no dict with an 'output', or answers an output
\* with or without an sql_query and with its columns; the database raises or
\* gives res.
SqlRuns ==
    { [agent |-> a, has_sql |-> FALSE, columns |-> << >>, db_raises |-> FALSE,
       results |-> [kind |-> "value", data |-> ""], csv_raises |-> FALSE] :
         a \in {"raises", "invalid"} }
    \cup { [agent |-> "output", has_sql |-> FALSE, columns |-> c, db_raises |-> FALSE,
            results |-> [kind |-> "value", data |-> ""], csv_raises |-> FALSE] :
              c \in SqlColumnLists }
    \cup { [agent |-> "output", has_sql |-> TRUE, columns |-> c, db_raises |-> TRUE,
            results |-> [kind |-> "value", data |-> ""], csv_raises |-> FALSE] :
              c \in SqlColumnLists }
    \cup { [agent |-> "output", has_sql |-> TRUE, columns |-> c, db_raises |-> FALSE,
            results |-> r, csv_raises |-> w] :
              c \in SqlColumnLists, r \in SqlResults, w \in BOOLEAN }

SqlToolIdle ==
    /\ sq_pc = "idle"
    /\ sq_results = [kind |-> "value", data |-> ""]
    /\ sq_columns = << >>
    /\ sq_df = SqlEmptyFrame
    /\ sq_files = {}
    /\ sq_ret = SqlNoReturn

\* _convert_to_dataframe called on its own.
SqlToolConvert ==
    /\ sq_pc = "idle"
    /\ \E res \in SqlResults, provided_columns \in SqlColumnLists :
          /\ sq_results' = res
          /\ sq_columns' = provided_columns
          /\ sq_df' = SqlTool_convert_to_dataframe(res, provided_columns)
    /\ sq_pc' = "converted"
    /\ UNCHANGED <<sq_files, sq_ret>>

\* run, lines 237-341.
SqlToolRun ==
    /\ sq_pc = "idle"
    /\ \E r \in SqlRuns :
          LET fr == SqlTool_convert_to_dataframe(r.results, r.columns)
              saved == SqlTool_save_results(fr, SqlBasePath, r.csv_raises)
              failed == r.agent # "output" \/ ~r.has_sql \/ r.db_raises
          IN  /\ sq_results' = r.results
              /\ sq_columns' = r.columns
              /\ sq_df' = IF failed THEN SqlEmptyFrame ELSE fr
              /\ sq_files' = IF failed THEN {} ELSE saved.files
              /\ sq_ret' =
                    IF failed THEN SqlErrorReturn
                    ELSE [type |-> "tabular",
                          columns |-> IF SqlFrameEmpty(fr) THEN << >> ELSE fr.columns,
                          row_count |-> Len(fr.records),
                          csv_path |-> IF "csv" \in saved.paths
                                       THEN SqlBasePath \o ".csv" ELSE "",
                          json_path |-> IF "json" \in saved.paths
                                        THEN SqlBasePath \o ".json" ELSE ""]
    /\ sq_pc' = "returned"

\* The caller has the result; the next call starts with an empty save_path.
SqlToolReturn ==
    /\ sq_pc # "idle"
    /\ sq_pc' = "idle"
    /\ sq_results' = [kind |-> "value", data |-> ""]
    /\ sq_columns' = << >>
    /\ sq_df' = SqlEmptyFrame
    /\ sq_files' = {}
    /\ sq_ret' = SqlNoReturn

\* ------------------------------------------------------------------------
\* NotionPosterTool._create_analysis_blocks
\* ------------------------------------------------------------------------
Max(a, b) == IF a > b THEN a ELSE b

\* Lengths around the chunk size.
TextLengths == {0, 1, chunk_size - 1, chunk_size, chunk_size + 1, 2 * chunk_size + 1}

\* A paragraph of the text, by what the function looks at. One that starts
\* with '#': level is the length of its first word and text the length of
\* what follows the first space, stripped. Another one: length is its
\* length, of which pad_left characters of leading and pad_right characters
\* of trailing whitespace (none inside).
HeadingParagraph(level, n) == [kind |-> "heading", level |-> level, text |-> n]
TextParagraph(n, l, r) == [kind |-> "text", length |-> n, pad_left |-> l, pad_right |-> r]

Paragraphs ==
    { HeadingParagraph(level, n) : level \in 1..4, n \in TextLengths }
    \cup { p \in { TextParagraph(n, l, r) : n \in TextLengths, l \in 0..1, r \in 0..1 } :
              p.pad_left + p.pad_right <= p.length }

\* analysis.split('\n\n')
Analyses == UNION { [1..k -> Paragraphs] : k \in 0..MaxParagraphs }

\* paragraph.strip() is empty
Blank(p) == p.kind = "text" /\ p.length = p.pad_left + p.pad_right

\* A block, by its type and the length of its text content.
AnalysisBlock(type, n) == [type |-> type, content |-> n]

\* len(paragraph[i:i+1900].strip()) for the chunk number k (from 0).
ChunkContent(p, k) ==
    LET lo == Max(k * chunk_size, p.pad_left)
        hi == Min((k + 1) * chunk_size, p.length - p.pad_right)
    IN  Max(0, hi - lo)

\* The chunks of lines 335-343: range(0, len(paragraph), 1900).
ChunkBlocks(p) ==
    [k \in 1..((p.length + chunk_size - 1) \div chunk_size) |->
        AnalysisBlock("paragraph", ChunkContent(p, k - 1))]

\* Lines 320-343 for one paragraph.
ParagraphBlocks(p) ==
    IF Blank(p) THEN << >>
    ELSE IF p.kind = "heading"
    THEN <<AnalysisBlock("heading_" \o ToString(Min(p.level, 3)), p.text)>>
    ELSE ChunkBlocks(p)

\* _create_analysis_blocks, lines 305-345; "Analysis" has 8 characters.
create_analysis_blocks(analysis) ==
    <<AnalysisBlock("heading_2", 8)>>
        \o Flatten([i \in 1..Len(analysis) |-> ParagraphBlocks(analysis[i])])

AnalysisIdle ==
    /\ an_pc = "idle"
    /\ an_analysis = << >>
    /\ an_blocks = << >>

AnalysisCall ==
    /\ an_pc = "idle"
    /\ \E analysis \in Analyses :
          /\ an_analysis' = analysis
          /\ an_blocks' = create_analysis_blocks(analysis)
    /\ an_pc' = "returned"

\* The caller has the blocks.
AnalysisReturn ==
    /\ an_pc = "returned"
    /\ an_pc' = "idle"
    /\ an_analysis' = << >>
    /\ an_blocks' = << >>

\* ------------------------------------------------------------------------
\* The tools, one run at a time
\* ------------------------------------------------------------------------
Init ==
    /\ pc = "idle"
    /\ ret = NoReturn
    /\ top_k = 1
    /\ query_result = None
    /\ df = None
    /\ executed = << >>
    /\ timestamp = "t1"
    /\ gcs = [u \in Uris |-> None]
    /\ retry_count = 0
    /\ attempts = 0
    /\ last_error = "none"

    /\ LegacyIdle
    /\ SlackInit
    /\ ChecklistIdle
    /\ DbIdle
    /\ HttpIdle
    /\ ManagerIdle
    /\ GenIdle
    /\ ThreadsIdle
    /\ StorageIdle
    /\ SqlToolIdle
    /\ AnalysisIdle

Next ==
    /\ UNCHANGED <<legacyVars, slackVars, checklistVars, dbVars, httpVars, managerVars, genVars,
                   threadVars, storageVars, sqlToolVars, analysisVars>>
    /\ \/ V3Generate
       \/ V3TraditionalQuery
       \/ V3SaveHeader
       \/ V3SaveResponse
       \/ CloudStart
       \/ CloudAttempt
       \/ FileReaderRun
       \/ NotionPosterRun
       \/ GoogleDriveRun
       \/ SlackCommunicatorRun
       \/ ToolReturn

Spec == Init /\ [][Next]_vars

\* SQLQueryTOOL.py alone.
LegacyNext ==
    /\ UNCHANGED <<toolVars, slackVars, checklistVars, dbVars, httpVars, managerVars, genVars,
                   threadVars, storageVars, sqlToolVars, analysisVars>>
    /\ \/ LegacyConvert
       \/ LegacyRun
       \/ LegacyReturn

SpecLegacy == Init /\ [][LegacyNext]_vars

\* The Slack handlers of app.py and utils/slack_handler.py, one event at a
\* time.
SlackNext ==
    /\ UNCHANGED <<toolVars, legacyVars, checklistVars, dbVars, httpVars, managerVars, genVars,
                   threadVars, storageVars, sqlToolVars, analysisVars>>
    /\ \/ AppHandleMessageEvents
       \/ SlackHandleMessage

SpecSlack == Init /\ [][SlackNext]_vars

\* NotionPosterTool._create_checklist_blocks, one call at a time.
ChecklistNext ==
    /\ UNCHANGED <<toolVars, legacyVars, slackVars, dbVars, httpVars, managerVars, genVars,
                   threadVars, storageVars, sqlToolVars, analysisVars>>
    /\ \/ ChecklistStart
       \/ ChecklistVendor
       \/ ChecklistVendorItem
       \/ ChecklistDivider
       \/ ChecklistItem
       \/ ChecklistReturn

SpecChecklist == Init /\ [][ChecklistNext]_vars

\* utils/db_connection.py get_db_connection, one with-statement at a time.
DbNext ==
    /\ UNCHANGED <<toolVars, legacyVars, slackVars, checklistVars, httpVars, managerVars, genVars,
                   threadVars, storageVars, sqlToolVars, analysisVars>>
    /\ \/ DbEnter
       \/ DbConnectorAttempt
       \/ DbDirectAttempt
       \/ DbExit
       \/ DbCursor
       \/ DbCursorBody
       \/ DbCursorExit
       \/ DbReturn

SpecDb == Init /\ [][DbNext]_vars

\* The HTTP endpoints of main.py and app.py, one request at a time.
HttpNext ==
    /\ UNCHANGED <<toolVars, legacyVars, slackVars, checklistVars, dbVars, managerVars, genVars,
                   threadVars, storageVars, sqlToolVars, analysisVars>>
    /\ \/ slack_events
       \/ endpoint
       \/ create_inventory_report
       \/ HttpReturn

SpecHttp == Init /\ [][HttpNext]_vars

\* ReportingManager.handle_message, one message at a time.
ManagerNext ==
    /\ UNCHANGED <<toolVars, legacyVars, slackVars, checklistVars, dbVars, httpVars, genVars,
                   threadVars, storageVars, sqlToolVars, analysisVars>>
    /\ \/ handle_message
       \/ ManagerReturn

SpecManager == Init /\ [][ManagerNext]_vars

\* app.py generate_response, one call at a time, and the run at the remote
\* API.
GenerateNext ==
    /\ UNCHANGED <<toolVars, legacyVars, checklistVars, dbVars, httpVars, managerVars,
                   threadVars, storageVars, sqlToolVars, analysisVars>>
    /\ UNCHANGED <<messages, handled, handler_nonbot, handler_sent, last_handling>>
    /\ \/ GenStart
       \/ GenGetThread
       \/ GenAddMessage
       \/ GenCreateRun
       \/ GenPoll
       \/ GenListMessages
       \/ GenReturn
       \/ RunProgress

SpecGenerate == Init /\ [][GenerateNext]_vars

\* app.py get_or_create_thread called by the handlers of two events at the
\* same time, each in a thread of its own, statement by statement.
ThreadsNext ==
    /\ UNCHANGED <<toolVars, legacyVars, checklistVars, dbVars, httpVars, managerVars,
                   genVars, storageVars, sqlToolVars, analysisVars>>
    /\ UNCHANGED <<messages, handled, handler_nonbot, handler_sent, last_handling>>
    /\ \/ \E p \in HandlerThreads :
             \/ ThCall(p)
             \/ ThCheck(p)
             \/ ThCreate(p)
             \/ ThStore(p)
             \/ ThReturn(p)
       \/ ThDone

SpecThreads == Init /\ [][ThreadsNext]_vars

\* SlackThreadStorage, one call at a time.
StorageNext ==
    /\ UNCHANGED <<toolVars, legacyVars, slackVars, checklistVars, dbVars, httpVars, managerVars,
                   genVars, threadVars, sqlToolVars, analysisVars>>
    /\ \/ save_thread
       \/ update_thread
       \/ close_thread
       \/ add_message_to_thread

SpecStorage == Init /\ [][StorageNext]_vars

\* Two concurrent add_message_to_thread calls on one existing thread.
StorageRaceNext ==
    /\ UNCHANGED <<toolVars, legacyVars, slackVars, checklistVars, dbVars, httpVars, managerVars,
                   genVars, threadVars, sqlToolVars, analysisVars>>
    /\ \/ AddBegin
       \/ \E p \in AddCalls :
             \/ AddRead(p)
             \/ AddSave(p)
       \/ AddDone

SpecStorageRace == Init /\ [][StorageRaceNext]_vars

\* reporting_manager/tools/SQLQueryTool.py, one call at a time.
SqlToolNext ==
    /\ UNCHANGED <<toolVars, legacyVars, slackVars, checklistVars, dbVars, httpVars, managerVars,
                   genVars, threadVars, storageVars, analysisVars>>
    /\ \/ SqlToolConvert
       \/ SqlToolRun
       \/ SqlToolReturn

SpecSqlTool == Init /\ [][SqlToolNext]_vars

\* NotionPosterTool._create_analysis_blocks, one call at a time.
AnalysisNext ==
    /\ UNCHANGED <<toolVars, legacyVars, slackVars, checklistVars, dbVars, httpVars, managerVars,
                   genVars, threadVars, storageVars, sqlToolVars>>
    /\ \/ AnalysisCall
       \/ AnalysisReturn

SpecAnalysis == Init /\ [][AnalysisNext]_vars

\* The steps of generate_response are taken as long as it has not returned;
\* nothing is assumed of the run at the remote API, nor is an API call
\* assumed to raise.
GenerateSteps ==
    GenStart \/ GenGetThread \/ GenAddMessage \/ GenCreateRun \/ GenPollTurn
       \/ GenListMessages \/ GenReturn

SpecGenerateFair == SpecGenerate /\ WF_genVars(GenerateSteps)

\* ------------------------------------------------------------------------
\* Properties of the tools
\* ------------------------------------------------------------------------
V3Finished == pc = "returned" /\ ret.tool = "SQLQueryToolV3"
CloudFinished == pc = "returned" /\ ret.tool = "CloudStorageTool"

\* The query holds a KW <number> clause.
HasClause(q, kw) == \E i \in 1..(Len(q) - 1) : q[i] = kw /\ q[i + 1] = "NUM"

\* C1: no run() of any tool lets an exception out to the calling agent;
\* every failure comes back as an error value.
C1_NoToolRaises == ret.kind # "raise"

\* The thread of Slack a message belongs to: the ts of its root message.
SlackThread(event) == IF event.thread_ts = NoThread THEN event.ts ELSE event.thread_ts

\* C2: every handled event's conversation id is channel ':' t, t being the
\* thread_ts when present and else the ts; two handled events have the same
\* conversation id exactly when they are of the same thread of the same
\* channel.
C2_ConversationIdPerThread ==
    /\ \A h \in handled :
          h.id = h.event.channel \o ":" \o
                 (IF h.event.thread_ts # NoThread THEN h.event.thread_ts ELSE h.event.ts)
    /\ \A h1, h2 \in handled :
          (h1.id = h2.id) <=> (/\ h1.event.channel = h2.event.channel
                               /\ SlackThread(h1.event) = SlackThread(h2.event))

\* A root, a reply in its thread and a message elsewhere have been handled.
C2_Witness ==
    \E h1, h2, h3 \in handled :
        /\ h1.event.thread_ts = NoThread
        /\ h2.event.thread_ts = h1.event.ts /\ h2.event.channel = h1.event.channel
        /\ h2.id = h1.id
        /\ h3.event.channel # h1.event.channel /\ h3.id # h1.id

\* C3, the state: active_threads holds an entry for exactly the ids that
\* were requested successfully, and one remote thread was created per entry,
\* each entry with a thread of its own.
C3_EntriesAreRequests ==
    /\ DOMAIN active_threads = requested
    /\ remote_threads = Cardinality(DOMAIN active_threads)
    /\ \A c1, c2 \in DOMAIN active_threads :
          active_threads[c1] = active_threads[c2] => c1 = c2

\* C3, the steps: a remote thread is created only by a call for an id that
\* has no entry yet, and an entry never changes nor disappears.
C3_EntriesAreStable ==
    [][/\ \A c \in DOMAIN active_threads :
            c \in DOMAIN active_threads' /\ active_threads'[c] = active_threads[c]
       /\ remote_threads' # remote_threads =>
            /\ remote_threads' = remote_threads + 1
            /\ \E c \in DOMAIN active_threads' \ DOMAIN active_threads :
                  active_threads'[c] = remote_threads']_vars

\* C3: after any sequence of get_or_create_thread calls, one at a time,
\* active_threads holds exactly one entry per conversation id requested
\* successfully, a remote thread is created only by the first such call for
\* an id, and the thread_id bound to an id never changes.
C3_OneThreadPerConversation == []C3_EntriesAreRequests /\ C3_EntriesAreStable

\* Two calls for one conversation id and a call for another have returned.
C3_Witness ==
    /\ Cardinality(DOMAIN active_threads) = 2
    /\ \E h1, h2 \in handled :
          h1.handler = "app" /\ h2.handler = "app" /\ h1.event # h2.event /\ h1.id = h2.id
          /\ h1.id \in requested

\* The items of the argument.
ChecklistSize(d) ==
    LET RECURSIVE Sum(_)
        Sum(k) == IF k = 0 THEN 0 ELSE d.groups[k].size + Sum(k - 1)
    IN  Sum(Len(d.groups))

\* C9: _create_checklist_blocks returns at most 100 blocks, headings,
\* to-dos and dividers counted together, whatever the argument.
C9_AtMostHundredBlocks ==
    checklist_pc = "returned" => Len(blocks) <= 100

\* A vendor-grouped argument of more than 100 items has been cut at 100
\* blocks, a divider among them.
C9_Witness ==
    /\ checklist_pc = "returned"
    /\ IsGrouped(checklist_data)
    /\ ChecklistSize(checklist_data) > 100
    /\ Len(blocks) = 100
    /\ \E x \in 1..Len(blocks) : blocks[x] = "divider"

\* A configuration no connection can be established with: none through the
\* connector, and none directly where the direct connection is tried.
Unusable(c, cloud_run) ==
    \/ ~c.credentials
    \/ ~c.instance /\ (cloud_run \/ ~c.host)

\* C10: with a configuration no connection can be established with,
\* get_db_connection gives the body of the with-statement no connection
\* and ends in a DatabaseError or a subclass of it.
C10_UnusableConfigRaisesDatabaseError ==
    (db_pc # "idle" /\ Unusable(db_config, is_cloud_run)) =>
        /\ ~yielded
        /\ conn = None
        /\ db_pc \in {"connector", "direct", "raised"}
        /\ db_pc = "raised" => IsDatabaseError(db_error)

\* The invalid instance and host of a configuration with credentials have
\* used up the attempts of both ways, and the error is out.
C10_Witness ==
    /\ db_pc = "raised"
    /\ db_config.credentials /\ ~db_config.instance /\ ~db_config.host
    /\ ~is_cloud_run
    /\ direct_attempts = 3
    /\ ~yielded

\* C11: one get_conn call tries the connector at most 3 times; on Cloud Run
\* it never tries the direct connection; elsewhere it tries the direct
\* connection only after all 3 connector attempts failed, at most 3 times,
\* and raises only when those failed too: at most 6 attempts in all.
C11_AtMostSixAttempts ==
    /\ connector_attempts <= 3
    /\ direct_attempts <= 3
    /\ connector_attempts + direct_attempts <= 6
    /\ is_cloud_run => direct_attempts = 0 /\ db_pc # "direct"
    /\ (direct_attempts > 0 \/ db_pc = "direct") =>
          connector_attempts = 3 /\ (direct_attempts = 0 => ~yielded)
    /\ db_pc = "raised" =>
          /\ connector_attempts = 3
          /\ ~is_cloud_run => direct_attempts = 3

\* With a valid configuration, off Cloud Run, all six attempts have failed.
C11_Witness ==
    /\ db_pc = "raised"
    /\ db_config.credentials /\ db_config.instance /\ db_config.host
    /\ ~is_cloud_run
    /\ connector_attempts + direct_attempts = 6

\* The calls of db_calls that are among names, in order.
CallsAmong(names) == SelectSeq(db_calls, LAMBDA c : c \in names)

\* C12: get_db_cursor commits exactly when the body of the with-statement
\* ended without an exception, and whether the body ended normally, raised,
\* or the commit raised, it closes the cursor and then the connection.
C12_CommitIffBodyOkThenClose ==
    /\ CallsAmong({"conn.commit"}) # << >> => db_body = "ok"
    /\ (db_manager = "get_db_cursor" /\ db_body # "none" /\ db_pc \in {"closed", "failed"}) =>
          /\ db_body = "ok" => CallsAmong({"conn.commit"}) = <<"conn.commit">>
          /\ CallsAmong({"cursor.close", "conn.close"}) = <<"cursor.close", "conn.close">>
          /\ db_calls[Len(db_calls)] = "conn.close"

\* The body went through, the commit raised, and cursor and connection
\* have been closed.
C12_Witness ==
    /\ db_manager = "get_db_cursor"
    /\ db_pc = "failed"
    /\ db_body = "ok"
    /\ db_error = "InterfaceError"
    /\ db_calls = <<"conn.cursor", "conn.commit", "cursor.close", "conn.close">>

\* A URL-verification request of Slack: type url_verification with its
\* challenge.
IsUrlVerification(r) ==
    /\ r.endpoint = "/slack/events"
    /\ r.valid_json
    /\ Get(r.payload, "type") = "url_verification"
    /\ "challenge" \in DOMAIN r.payload

\* C13: a URL-verification request to /slack/events is answered with a body
\* whose challenge is the challenge received, and is not dispatched to the
\* handling of message events.
C13_ChallengeEchoed ==
    (http_pc = "responded" /\ IsUrlVerification(http_request)) =>
        /\ "challenge" \in DOMAIN http_response.body
        /\ http_response.body.challenge = http_request.payload["challenge"]
        /\ ~dispatched

\* A URL-verification request that also names an event has been answered.
C13_Witness ==
    /\ http_pc = "responded"
    /\ IsUrlVerification(http_request)
    /\ "event" \in DOMAIN http_request.payload
    /\ http_response.body = [challenge |-> "ch2"]

\* C14: /inventory/report answers 400 with the tool's error text as detail
\* whenever the tool's result has an 'error' key, and 500 only when an
\* unexpected exception occurred while the report was created.
C14_ErrorResultIs400 ==
    (http_pc = "responded" /\ http_request.endpoint = "/inventory/report") =>
        /\ (/\ http_request.secrets
            /\ http_request.result.kind = "value"
            /\ "error" \in DOMAIN http_request.result.value) =>
               /\ http_response.status = 400
               /\ http_response.body = [detail |-> http_request.result.value.error]
        /\ http_response.status = 500 =>
               ~http_request.secrets \/ http_request.result.kind = "raise"

\* The query failed: the SQL tool reported an error, or a step raised.
QueryFailed(run) ==
    \/ run.sql.kind \in {"error", "raise"}
    \/ run.reader = "raise"

\* C15: handle_message signals a failed query by returning a dict that
\* contains an 'error' key.
C15_FailureHasErrorKey ==
    (manager_pc = "returned" /\ QueryFailed(manager_run)) =>
        "error" \in DOMAIN manager_response

\* C16: in utils/slack_handler.py an event with a bot_id causes neither a
\* call of generate_response nor a message; after any sequence of events
\* the handler has sent at most as many messages as it received events
\* without bot_id.
C16_BotMessagesIgnored ==
    /\ (last_handling.handler = "handler" /\ last_handling.bot_id) =>
          /\ ~last_handling.generated
          /\ last_handling.sent = << >>
          /\ \A h \in handled : h.handler = "handler" => h.event # last_handling.event
    /\ handler_sent <= handler_nonbot

\* The handler has answered a message, and the reply in that thread that
\* carries a bot_id has been ignored.
C16_Witness ==
    /\ last_handling.handler = "handler"
    /\ last_handling.bot_id
    /\ last_handling.event.thread_ts # NoThread
    /\ handler_sent = 1
    /\ handler_nonbot = 1

\* C17: in utils/slack_handler.py, whenever handling an event without
\* bot_id fails at reading its fields, generating the response or sending
\* it, the apology is sent into the event's thread (where Slack accepts
\* the message).
C17_ApologyOnEveryFailure ==
    (/\ last_handling.handler = "handler"
     /\ ~last_handling.bot_id
     /\ last_handling.failed_at # "none"
     /\ last_handling.apology # "raised") =>
        last_handling.sent = <<Said("apology", SlackThread(last_handling.event))>>

\* C19: in app.py handle_message_events an event without a user field, and
\* an event that is no app_mention and whose text mentions a user or whose
\* sender is of the bot's own workspace, produce no response, and neither
\* is_response_required nor generate_response is called for them.
C19_FilteredEventsGetNoResponse ==
    (/\ last_handling.handler = "app"
     /\ \/ ~last_handling.has_user
        \/ ~last_handling.app_mention /\ (last_handling.mentions \/ last_handling.same_workspace)) =>
        /\ last_handling.sent = << >>
        /\ ~last_handling.asked
        /\ ~last_handling.generated

\* C18, the result: what generate_response returns is the latest assistant
\* message when the run completed, and an apology text otherwise.
C18_ReturnsMessageOrApology ==
    gen_pc = "returned" =>
        IF thread_messages # << >>
        THEN /\ run_status = CompletedStatus
             /\ gen_response = LatestAssistantMessage(thread_messages)
        ELSE \E e \in {"threads.create", "messages.create", "runs.create", "runs.retrieve",
                        "messages.list"}
                       \cup { "Run failed with status: " \o st : st \in FailedStatuses } :
                gen_response = ApologyText(e)

\* C18: generate_response always eventually returns a string, the latest
\* assistant message or an apology text, and never raises; its polling loop
\* blocks forever for no sequence of run statuses.
C18_AlwaysEventuallyReturns ==
    /\ []C18_ReturnsMessageOrApology
    /\ (gen_pc # "idle") ~> (gen_pc = "returned")

\* C20: when two handlers call get_or_create_thread at the same time for
\* one conversation id, one remote thread is created for it and both get
\* the same thread_id.
C20_OneThreadUnderConcurrency ==
    /\ \A t1, t2 \in th_created : t1.cid = t2.cid => t1.thread_id = t2.thread_id
    /\ \A p, q \in HandlerThreads :
          (th_pc[p] = "done" /\ th_pc[q] = "done" /\ th_cid[p] = th_cid[q]) =>
              th_result[p] = th_result[q]

C5_ReturnedUrisWritten ==
    (V3Finished /\ ~ret.error) =>
        /\ gcs[ret.header_uri] # None
        /\ gcs[ret.response_uri] # None
        /\ gcs[ret.response_uri].n = ret.total_records
        /\ gcs[ret.response_uri].cols = ret.columns
        /\ gcs[ret.header_uri].total_records = ret.total_records
        /\ gcs[ret.header_uri].columns = ret.columns

C5_Witness == V3Finished /\ ~ret.error /\ ret.total_records > 0

\* C6: when the agent's output is valid JSON in the prescribed structure (a
\* non-empty sql_query, sql_result a non-empty list of row lists) and the
\* result files can be written, run returns a 'tabular' result whose
\* row_count is the number of rows in sql_result.
C6_PrescribedJsonIsTabular ==
    (/\ lret.tool = "SQLQueryTOOL"
     /\ agent_output.parsed = "json" /\ ~agent_output.sql_query.empty
     /\ agent_output.kind = "lists" /\ agent_output.data # << >>
     /\ agent_output.saved)
    => (lret.type = "tabular" /\ lret.row_count = Len(agent_output.data))

\* C7: for a non-empty list of tuple rows the DataFrame has exactly as many
\* columns as the first row has values.
C7_ColumnsMatchFirstRow ==
    (results.kind = "tuples" /\ results.data # << >>)
    => Len(frame.cols) = Len(results.data[1])

\* C8: CloudStorageTool.run uploads at most 3 times; it returns 'success' at
\* the first attempt that succeeds, 'error' with the last failure after the
\* third failed attempt, and it never raises nor goes on retrying.
C8_AtMostThreeAttempts ==
    /\ attempts <= max_retries
    /\ pc = "cs_upload" => retry_count < max_retries /\ attempts = retry_count
    /\ CloudFinished =>
          /\ ret.kind = "value"
          /\ ret.status \in {"success", "error"}
          /\ ret.status = "success" => attempts = retry_count + 1
          /\ (ret.status = "error" /\ attempts > 0) =>
                /\ attempts = max_retries
                /\ retry_count = max_retries
                /\ ret.exception = last_error

C8_Witness ==
    /\ CloudFinished /\ ret.status = "error"
    /\ attempts = max_retries /\ ret.exception = "e2"

\* ------------------------------------------------------------------------
\* Properties of SlackThreadStorage
\* ------------------------------------------------------------------------
\* The thread the concurrent calls are made for, as the collection holds it.
RacedThread == slack_chats[conversation_id(StorageChannel, add_thread_ts)][add_thread_ts]

\* The thread holds the message of call p.
Stored(thread, p) ==
    /\ "messages" \in DOMAIN thread
    /\ AddMessageTs(p) \in DOMAIN thread.messages
    /\ thread.messages[AddMessageTs(p)] = AddContent(p)

\* C21: add_message_to_thread loses no message: once two calls with distinct
\* message_ts on the same existing thread have returned, whatever the
\* interleaving of their reads and writes, the thread holds both messages
\* (and each call that returned has its message in the thread from then on).
C21_NoMessageLost ==
    \A p \in AddCalls : add_pc[p] = "returned" => Stored(RacedThread, p)

\* Both calls read the thread before either saved it (neither local copy
\* holds the other's message), and both returned.
C21_Witness ==
    /\ \A p \in AddCalls : add_pc[p] = "returned"
    /\ \A p, q \in AddCalls : p # q => ~Stored(add_threads[p][add_thread_ts], q)
    /\ \A p \in AddCalls : Stored(RacedThread, p)

\* len(thread['messages']), 0 for a thread without the key.
RecordedMessages(thread) ==
    IF "messages" \in DOMAIN thread THEN Cardinality(DOMAIN thread.messages) ELSE 0

\* C22: after any sequence of save_thread, add_message_to_thread,
\* update_thread and close_thread calls made one at a time, message_count of
\* every stored thread equals the number of messages recorded for the thread:
\* the entries of its 'messages' map, with or without the initial message of
\* save_thread counted as one more.
C22_MessageCountIsNumberOfMessages ==
    \A c \in StorageConversations : \A t \in DOMAIN slack_chats[c] :
        LET thread == slack_chats[c][t]
        IN  \/ thread.message_count = RecordedMessages(thread)
            \/ thread.message_count = RecordedMessages(thread) + 1

\* ------------------------------------------------------------------------
\* Properties of reporting_manager/tools/SQLQueryTool.py
\* ------------------------------------------------------------------------
\* The file at the path was written with the content.
Written(path, content) == SqlFile(path, content) \in sq_files

\* C23: _save_results on a non-empty DataFrame writes a CSV file and a JSON
\* file and returns both paths: every run that succeeds with at least one row
\* reports a non-empty csv_path and a non-empty json_path, and both name
\* files that were written.
C23_BothFilesWrittenAndReported ==
    (sq_pc = "returned" /\ sq_ret.type = "tabular" /\ sq_ret.row_count >= 1
        /\ ~SqlFrameEmpty(sq_df)) =>
        /\ sq_ret.csv_path # ""
        /\ sq_ret.json_path # ""
        /\ Written(sq_ret.csv_path, "csv")
        /\ Written(sq_ret.json_path, "json")

\* Every value of the row is in the record under a column of its own: the
\* positions of the row map one-to-one into the record's columns, each value
\* (as convert_value gives it) at its column.
HoldsRow(record, row) ==
    \E f \in [1..Len(row) -> DOMAIN record] :
        /\ \A j, l \in 1..Len(row) : f[j] = f[l] => j = l
        /\ \A j \in 1..Len(row) : record[f[j]] = convert_value(row[j])

\* C24: _convert_to_dataframe puts every value of every result row in the
\* DataFrame under a column of its own: nothing is dropped or overwritten
\* when the provided column list is shorter or longer than a row, repeats a
\* name, or when the rows differ in length.
C24_NoValueDropped ==
    (sq_pc = "converted" /\ sq_results.kind = "rows" /\ sq_results.data # << >>) =>
        /\ Len(sq_df.records) = Len(sq_results.data)
        /\ \A i \in 1..Len(sq_results.data) :
              HoldsRow(sq_df.records[i], sq_results.data[i])

\* ------------------------------------------------------------------------
\* Properties of NotionPosterTool._create_analysis_blocks
\* ------------------------------------------------------------------------
\* C25: every block _create_analysis_blocks produces, heading or paragraph,
\* carries text content of at most 1900 characters, whatever the analysis
\* text.
C25_BlocksWithinChunkSize ==
    an_pc = "returned" =>
        \A i \in 1..Len(an_blocks) : an_blocks[i].content <= chunk_size

====
